---- MODULE Spec2Model ----
(***************************************************************************)
(* The versioned budget state model of cloud-budgetter: the store reducer  *)
(* (appReducer), its propagation-with-override algorithm, the version      *)
(* list, the import/merge protocol and the transient edit session          *)
(* (editReducer).                                                          *)
(***************************************************************************)
EXTENDS Integers, Sequences, FiniteSets, Bags, TLC

VARIABLES
    models,          \* AppState.models
    activeModelId,   \* AppState.activeModelId, NoModel for null
    now,             \* Date.now()
    nextModelId,     \* the next model id crypto.randomUUID() mints
    nextServiceId,   \* the next service id crypto.randomUUID() mints
    thrown,          \* the last dispatch threw instead of returning a state
    session,         \* the edit session of BudgetAdjustModal, when one is open
    exported,        \* the archives exportModel has saved, each with the model exported
    manager,         \* ModelManager: imports in flight, pendingConflict, importError
    provider,        \* AppProvider: its phase, the browser profile (store) it runs
                     \* in, savedState and the state it migrated to
    last             \* the action dispatched last, with its payload

vars == <<models, activeModelId, now, nextModelId, nextServiceId, thrown, session,
          exported, manager, provider, last>>

storeVars == <<models, activeModelId>>

----------------------------------------------------------------------------
(* Bounds of the model.                                                    *)

\* Date.now() advances by one per dispatched action: runs of up to MaxTime
\* actions are explored when the edit session takes part,
MaxTime == 5
\* and runs of up to MaxStoreTime actions over the whole action set of the store.
MaxStoreTime == 3

----------------------------------------------------------------------------
(* Program constants and value domains.                                    *)

NumMonths == 12
SCHEMA_VERSION == 3
NoModel == 0 - 1

Months == 0 .. (NumMonths - 1)
Fields == {"consumption", "efficiency", "overhead", "discount"}

\* The months, fields and values that dispatched edits name.
EditMonths == {0, 5}
EditFields == {"consumption"}
EditValues == {50, 200}

Max(a, b) == IF a >= b THEN a ELSE b

\* new Date(t).getMonth() / getFullYear(), with the clock counted in months.
GetMonth(t) == t % 12
GetFullYear(t) == 1970 + (t \div 12)

----------------------------------------------------------------------------
(* Plain data: cells, month entries, service budgets, model data.          *)

Cell(v, o) == [value |-> v, isOverridden |-> o]

\* A JavaScript object read at a key it may lack: the set of keys it has.
Keys(obj) == DOMAIN obj

EmptyObject == [k \in {} |-> 0]

createDefaultModelData(t) ==
    [services     |-> <<>>,
     budgetConfig |-> [startMonth |-> GetMonth(t), startYear |-> GetFullYear(t)],
     budgetData   |-> EmptyObject]

\* The mutation of createServiceBudget that marks every seeded month,
\* month 0 included, overridden.
createServiceBudget_OverridingMonth0(defaultEfficiency, defaultOverhead, seed) ==
    [i \in Months |->
        LET consumption == IF seed # <<>>
                           THEN seed[1].consumption + seed[1].monthlyGrowth * i
                           ELSE 0
        IN [f \in Fields |->
              CASE f = "consumption" -> Cell(Max(consumption, 0), seed # <<>>)
                [] f = "efficiency"  -> Cell(defaultEfficiency, FALSE)
                [] f = "overhead"    -> Cell(defaultOverhead, FALSE)
                [] f = "discount"    -> Cell(0, FALSE)]]

\* seed is <<>> (absent) or <<[consumption |-> c, monthlyGrowth |-> g]>>.
createServiceBudget(defaultEfficiency, defaultOverhead, seed) ==
    [i \in Months |->
        LET consumption == IF seed # <<>>
                           THEN seed[1].consumption + seed[1].monthlyGrowth * i
                           ELSE 0
        IN [f \in Fields |->
              CASE f = "consumption" -> Cell(Max(consumption, 0), i > 0 /\ seed # <<>>)
                [] f = "efficiency"  -> Cell(defaultEfficiency, FALSE)
                [] f = "overhead"    -> Cell(defaultOverhead, FALSE)
                [] f = "discount"    -> Cell(0, FALSE)]]

\* { ...entry, [field]: { value, isOverridden } }; entry may be undefined.
updateMonthField(sb, m, field, value, isOverridden) ==
    LET entry == IF m \in Keys(sb) THEN sb[m] ELSE EmptyObject
    IN [f \in Keys(entry) \cup {field} |->
          IF f = field THEN Cell(value, isOverridden) ELSE entry[f]]

\* obj with key k set to val (object spread followed by one computed key).
Put(obj, k, val) == [x \in Keys(obj) \cup {k} |-> IF x = k THEN val ELSE obj[x]]

\* obj without key k (rest destructuring).
Omit(obj, k) == [x \in Keys(obj) \ {k} |-> obj[x]]

\* JSON.parse(JSON.stringify(data)): a fresh copy holding the enumerable
\* properties of every object and the elements of every array.  The numbers
\* of the model are finite integers and the other leaves strings and
\* booleans, which the round trip through JSON text preserves.
JsonClone(data) ==
    [services     |-> [i \in DOMAIN data.services |->
                          [p \in Keys(data.services[i]) |-> data.services[i][p]]],
     budgetConfig |-> [p \in Keys(data.budgetConfig) |-> data.budgetConfig[p]],
     budgetData   |-> [id \in Keys(data.budgetData) |->
                          [m \in Keys(data.budgetData[id]) |->
                              [f \in Keys(data.budgetData[id][m]) |->
                                  [p \in Keys(data.budgetData[id][m][f]) |->
                                      data.budgetData[id][m][f][p]]]]]]

----------------------------------------------------------------------------
(* Lookups over the model list.                                            *)

ModelIdsOf(ms) == {ms[i].id : i \in DOMAIN ms}

HasModel(id) == id \in ModelIdsOf(models)

\* Array.prototype.find: the first match.
FindIndex(ms, id) == CHOOSE i \in DOMAIN ms :
                        ms[i].id = id /\ \A j \in DOMAIN ms : ms[j].id = id => i <= j

FindModel(id) == models[FindIndex(models, id)]

ActiveModel == FindModel(activeModelId)

ServiceIdsOf(data) == {data.services[i].id : i \in DOMAIN data.services}

VersionNumbers(vs) == {vs[i].number : i \in DOMAIN vs}

SetMax(S) == CHOOSE x \in S : \A y \in S : y <= x

FindVersion(vs, n) ==
    vs[CHOOSE i \in DOMAIN vs :
          vs[i].number = n /\ \A j \in DOMAIN vs : vs[j].number = n => i <= j]

----------------------------------------------------------------------------
(* updateActiveModelData and the per-action data updaters.                 *)

\* state.models.map((m) => m.id === id ? f(m) : m), with updated[i] = f(ms[i]).
MapModels(ms, id, updated) ==
    [i \in DOMAIN ms |-> IF ms[i].id = id THEN updated[i] ELSE ms[i]]

\* updateActiveModelData writing through to the versions that hold the
\* working data, as it would were a version's data the working object itself
\* and the update made in place.
updateActiveModelData_InPlace(ms, newData) ==
    MapModels(ms, activeModelId,
              [i \in DOMAIN ms |->
                  [ms[i] EXCEPT
                      !.data = newData[i],
                      !.updatedAt = now,
                      !.versions = [j \in DOMAIN ms[i].versions |->
                                      IF ms[i].versions[j].data = ms[i].data
                                      THEN [ms[i].versions[j] EXCEPT !.data = newData[i]]
                                      ELSE ms[i].versions[j]]]])


\* updateActiveModelData(state, updater), with newData[i] = updater(ms[i].data).
updateActiveModelData(ms, newData) ==
    MapModels(ms, activeModelId,
              [i \in DOMAIN ms |-> [ms[i] EXCEPT !.data = newData[i], !.updatedAt = now]])

\* The cascade loop without its `!isOverridden` test: every month is written.
RECURSIVE Cascade_IgnoringOverrides(_, _, _, _)
Cascade_IgnoringOverrides(sb, i, field, value) ==
    IF i >= NumMonths THEN [threw |-> FALSE, sb |-> sb]
    ELSE IF i \notin Keys(sb) \/ field \notin Keys(sb[i])
         THEN [threw |-> TRUE, sb |-> sb]
         ELSE Cascade_IgnoringOverrides(
                  Put(sb, i, updateMonthField(sb, i, field, value, FALSE)),
                  i + 1, field, value)


\* The SET_BUDGET_FIELD updater: [threw, data].  A read of a property of
\* undefined is a TypeError.
RECURSIVE Cascade(_, _, _, _)
Cascade(sb, i, field, value) ==
    IF i >= NumMonths THEN [threw |-> FALSE, sb |-> sb]
    ELSE IF i \notin Keys(sb) \/ field \notin Keys(sb[i])
         THEN [threw |-> TRUE, sb |-> sb]
         ELSE IF ~sb[i][field].isOverridden
              THEN Cascade(Put(sb, i, updateMonthField(sb, i, field, value, FALSE)),
                           i + 1, field, value)
              ELSE Cascade(sb, i + 1, field, value)

SetBudgetFieldData(data, serviceId, monthIndex, field, value) ==
    LET serviceBudget == IF serviceId \in Keys(data.budgetData)
                         THEN data.budgetData[serviceId] ELSE EmptyObject
        r == IF monthIndex = 0
             THEN Cascade(Put(serviceBudget, 0,
                              updateMonthField(serviceBudget, 0, field, value, FALSE)),
                          1, field, value)
             ELSE [threw |-> FALSE,
                   sb    |-> Put(serviceBudget, monthIndex,
                                 updateMonthField(serviceBudget, monthIndex,
                                                  field, value, TRUE))]
    IN [threw |-> r.threw,
        data  |-> [data EXCEPT !.budgetData = Put(data.budgetData, serviceId, r.sb)]]

\* The CLEAR_OVERRIDE updater copying month 0's value but keeping the flag.
ClearOverrideData_KeepingFlag(data, serviceId, monthIndex, field) ==
    LET serviceBudget == IF serviceId \in Keys(data.budgetData)
                         THEN data.budgetData[serviceId] ELSE EmptyObject
        readable == 0 \in Keys(serviceBudget) /\ field \in Keys(serviceBudget[0])
    IN IF ~readable THEN [threw |-> TRUE, data |-> data]
       ELSE LET sourceValue == serviceBudget[0][field].value
                next == Put(serviceBudget, monthIndex,
                            updateMonthField(serviceBudget, monthIndex,
                                             field, sourceValue, TRUE))
            IN [threw |-> FALSE,
                data  |-> [data EXCEPT !.budgetData = Put(data.budgetData, serviceId, next)]]


\* The CLEAR_OVERRIDE updater (monthIndex # 0): [threw, data].
ClearOverrideData(data, serviceId, monthIndex, field) ==
    LET serviceBudget == IF serviceId \in Keys(data.budgetData)
                         THEN data.budgetData[serviceId] ELSE EmptyObject
        readable == 0 \in Keys(serviceBudget) /\ field \in Keys(serviceBudget[0])
    IN IF ~readable THEN [threw |-> TRUE, data |-> data]
       ELSE LET sourceValue == serviceBudget[0][field].value
                next == Put(serviceBudget, monthIndex,
                            updateMonthField(serviceBudget, monthIndex,
                                             field, sourceValue, FALSE))
            IN [threw |-> FALSE,
                data  |-> [data EXCEPT !.budgetData = Put(data.budgetData, serviceId, next)]]

----------------------------------------------------------------------------
(* Initial state: createDefaultState(), no edit session.                   *)

NoSession == [open |-> FALSE]

\* ModelManager with no import in flight, no conflict shown and no error shown;
\* pendingConflict and importError are <<>> (null) or a one-element sequence.
NoImports == [inFlight |-> <<>>, pendingConflict |-> <<>>, importError |-> <<>>]

\* createDefaultState() at instant t, with freshId the id minted.
createDefaultState(t, freshId) ==
    [schemaVersion |-> SCHEMA_VERSION,
     models        |-> << [id        |-> freshId,
                           name      |-> "Default Budget",
                           createdAt |-> t,
                           updatedAt |-> t,
                           data      |-> createDefaultModelData(t),
                           versions  |-> <<>>] >>,
     activeModelId |-> freshId]

\* The default state of the first run: instant 0, the first id.
DefaultState == createDefaultState(0, 1)

\* useLocalStorage once mounted: latestValueRef starts at storedValue, the
\* effect has armed the write timer, `item` is what localStorage holds under
\* the key (<<>> for none) and `failed` records that a setItem has thrown.
MountedStorage(storedValue, item) ==
    [latestValue |-> storedValue, timer |-> TRUE, item |-> item, failed |-> FALSE]

Init ==
    /\ now = 0
    /\ models = DefaultState.models
    /\ activeModelId = DefaultState.activeModelId
    /\ nextModelId = 2
    /\ nextServiceId = 1
    /\ thrown = FALSE
    /\ session = NoSession
    /\ exported = {}
    /\ manager = NoImports
    /\ provider = [phase |-> "running", store |-> 1, savedState |-> DefaultState,
                   migrated |-> DefaultState,
                   storage |-> MountedStorage(DefaultState, <<>>)]
    /\ last = [type |-> "INIT"]

\* Every action is dispatched at a later instant than the one before it.
Step == now < MaxTime /\ now' = now + 1

\* A dispatch that returns a state.
Returns == thrown' = FALSE

\* The store is dispatched to only while no edit session (a modal) is open.
Idle == ~session.open

----------------------------------------------------------------------------
(* appReducer: model management.                                           *)

CreateModel(name) ==
    /\ Idle
    /\ LET newModel == [id        |-> nextModelId,
                        name      |-> name,
                        createdAt |-> now,
                        updatedAt |-> now,
                        data      |-> createDefaultModelData(now),
                        versions  |-> <<>>]
       IN /\ models' = Append(models, newModel)
          /\ activeModelId' = newModel.id
    /\ nextModelId' = nextModelId + 1
    /\ Returns
    /\ Step
    /\ last' = [type |-> "CREATE_MODEL"]
    /\ UNCHANGED <<nextServiceId, session, exported, manager, provider>>

RenameModel(modelId, name) ==
    /\ Idle
    /\ models' = MapModels(models, modelId,
           [i \in DOMAIN models |-> [models[i] EXCEPT !.name = name, !.updatedAt = now]])
    /\ Returns
    /\ Step
    /\ last' = [type |-> "RENAME_MODEL", modelId |-> modelId]
    /\ UNCHANGED <<activeModelId, nextModelId, nextServiceId, session, exported, manager, provider>>

DeleteModel(modelId) ==
    /\ Idle
    /\ LET remaining == SelectSeq(models, LAMBDA m : m.id # modelId)
       IN /\ models' = remaining
          /\ activeModelId' = IF activeModelId = modelId
                              THEN (IF remaining # <<>> THEN remaining[1].id ELSE NoModel)
                              ELSE activeModelId
    /\ Returns
    /\ Step
    /\ last' = [type |-> "DELETE_MODEL", modelId |-> modelId]
    /\ UNCHANGED <<nextModelId, nextServiceId, session, exported, manager, provider>>

SwitchModel(modelId) ==
    /\ Idle
    /\ activeModelId' = modelId
    /\ Returns
    /\ Step
    /\ last' = [type |-> "SWITCH_MODEL", modelId |-> modelId]
    /\ UNCHANGED <<models, nextModelId, nextServiceId, session, exported, manager, provider>>

DuplicateModel(modelId, name) ==
    /\ Idle
    /\ IF ~HasModel(modelId)
       THEN UNCHANGED <<models, activeModelId, nextModelId>>
       ELSE LET source   == FindModel(modelId)
                newModel == [id        |-> nextModelId,
                             name      |-> name,
                             createdAt |-> now,
                             updatedAt |-> now,
                             data      |-> JsonClone(source.data),
                             versions  |-> <<>>]
            IN /\ models' = Append(models, newModel)
               /\ activeModelId' = newModel.id
               /\ nextModelId' = nextModelId + 1
    /\ Returns
    /\ Step
    /\ last' = [type |-> "DUPLICATE_MODEL", modelId |-> modelId]
    /\ UNCHANGED <<nextServiceId, session, exported, manager, provider>>

----------------------------------------------------------------------------
(* appReducer: version management.                                         *)

\* The mutation of SAVE_VERSION that numbers the new version by the length
\* of the list.
SaveVersion_NumberByLength(name, shared) ==
    /\ Idle
    /\ IF ~HasModel(activeModelId)
       THEN UNCHANGED models
       ELSE LET activeModel == ActiveModel
                nextNumber  == Len(activeModel.versions) + 1
                newVersion  == [number    |-> nextNumber,
                                name      |-> name,
                                timestamp |-> now,
                                shared    |-> shared,
                                data      |-> JsonClone(activeModel.data)]
            IN models' = MapModels(models, activeModelId,
                   [i \in DOMAIN models |->
                       [models[i] EXCEPT !.versions = Append(@, newVersion),
                                         !.updatedAt = now]])
    /\ Returns
    /\ Step
    /\ last' = [type |-> "SAVE_VERSION"]
    /\ UNCHANGED <<activeModelId, nextModelId, nextServiceId, session, exported, manager, provider>>

SaveVersion(name, shared) ==
    /\ Idle
    /\ IF ~HasModel(activeModelId)
       THEN UNCHANGED models
       ELSE LET activeModel == ActiveModel
                nextNumber  == IF Len(activeModel.versions) > 0
                               THEN SetMax(VersionNumbers(activeModel.versions)) + 1
                               ELSE 1
                newVersion  == [number    |-> nextNumber,
                                name      |-> name,
                                timestamp |-> now,
                                shared    |-> shared,
                                data      |-> JsonClone(activeModel.data)]
            IN models' = MapModels(models, activeModelId,
                   [i \in DOMAIN models |->
                       [models[i] EXCEPT !.versions = Append(@, newVersion),
                                         !.updatedAt = now]])
    /\ Returns
    /\ Step
    /\ last' = [type |-> "SAVE_VERSION"]
    /\ UNCHANGED <<activeModelId, nextModelId, nextServiceId, session, exported, manager, provider>>

\* RESTORE_VERSION as a revert: the versions saved after the restored one are
\* dropped.
RestoreVersion_DroppingLater(versionNumber) ==
    /\ Idle
    /\ IF ~HasModel(activeModelId)
       THEN UNCHANGED models
       ELSE LET model == ActiveModel
            IN IF versionNumber \notin VersionNumbers(model.versions)
               THEN UNCHANGED models
               ELSE LET version == FindVersion(model.versions, versionNumber)
                    IN models' = MapModels(models, activeModelId,
                           [i \in DOMAIN models |->
                               [models[i] EXCEPT
                                   !.data = JsonClone(version.data),
                                   !.versions = SelectSeq(@,
                                       LAMBDA v : v.number <= versionNumber),
                                   !.updatedAt = now]])
    /\ Returns
    /\ Step
    /\ last' = [type |-> "RESTORE_VERSION", versionNumber |-> versionNumber]
    /\ UNCHANGED <<activeModelId, nextModelId, nextServiceId, session, exported, manager, provider>>


RestoreVersion(versionNumber) ==
    /\ Idle
    /\ IF ~HasModel(activeModelId)
       THEN UNCHANGED models
       ELSE LET model == ActiveModel
            IN IF versionNumber \notin VersionNumbers(model.versions)
               THEN UNCHANGED models
               ELSE LET version == FindVersion(model.versions, versionNumber)
                    IN models' = MapModels(models, activeModelId,
                           [i \in DOMAIN models |->
                               [models[i] EXCEPT !.data = JsonClone(version.data),
                                                 !.updatedAt = now]])
    /\ Returns
    /\ Step
    /\ last' = [type |-> "RESTORE_VERSION", versionNumber |-> versionNumber]
    /\ UNCHANGED <<activeModelId, nextModelId, nextServiceId, session, exported, manager, provider>>

DeleteVersion(versionNumber) ==
    /\ Idle
    /\ models' = MapModels(models, activeModelId,
           [i \in DOMAIN models |-> [models[i] EXCEPT
               !.versions = SelectSeq(@, LAMBDA v : v.number # versionNumber),
               !.updatedAt = now]])
    /\ Returns
    /\ Step
    /\ last' = [type |-> "DELETE_VERSION", versionNumber |-> versionNumber]
    /\ UNCHANGED <<activeModelId, nextModelId, nextServiceId, session, exported, manager, provider>>

ToggleVersionShared(versionNumber) ==
    /\ Idle
    /\ models' = MapModels(models, activeModelId,
           [i \in DOMAIN models |-> [models[i] EXCEPT
               !.versions = [j \in DOMAIN models[i].versions |->
                               IF models[i].versions[j].number = versionNumber
                               THEN [models[i].versions[j] EXCEPT !.shared = ~@]
                               ELSE models[i].versions[j]],
               !.updatedAt = now]])
    /\ Returns
    /\ Step
    /\ last' = [type |-> "TOGGLE_VERSION_SHARED", versionNumber |-> versionNumber]
    /\ UNCHANGED <<activeModelId, nextModelId, nextServiceId, session, exported, manager, provider>>

----------------------------------------------------------------------------
(* appReducer: services and budget fields of the active model.             *)

\* payload lacks id and createdAt; seed is <<>> or <<[consumption, monthlyGrowth]>>.
AddService(payload, seed) ==
    /\ Idle
    /\ LET newService == [id                |-> nextServiceId,
                          name              |-> payload.name,
                          unitType          |-> payload.unitType,
                          unitCost          |-> payload.unitCost,
                          discountEligible  |-> payload.discountEligible,
                          defaultEfficiency |-> payload.defaultEfficiency,
                          defaultOverhead   |-> payload.defaultOverhead,
                          createdAt         |-> now]
           newBudget  == createServiceBudget(newService.defaultEfficiency,
                                             newService.defaultOverhead, seed)
       IN models' = updateActiveModelData(models,
              [i \in DOMAIN models |-> [models[i].data EXCEPT
                  !.services   = Append(@, newService),
                  !.budgetData = Put(@, newService.id, newBudget)]])
    /\ nextServiceId' = nextServiceId + 1
    /\ Returns
    /\ Step
    /\ last' = [type |-> "ADD_SERVICE", serviceId |-> nextServiceId, seed |-> seed]
    /\ UNCHANGED <<activeModelId, nextModelId, session, exported, manager, provider>>

UpdateServiceData(data, payload) ==
    [data EXCEPT !.services = [i \in DOMAIN data.services |->
                                  IF data.services[i].id = payload.id
                                  THEN payload ELSE data.services[i]]]

UpdateService(payload) ==
    /\ Idle
    /\ models' = updateActiveModelData(models,
           [i \in DOMAIN models |-> UpdateServiceData(models[i].data, payload)])
    /\ Returns
    /\ Step
    /\ last' = [type |-> "UPDATE_SERVICE", serviceId |-> payload.id]
    /\ UNCHANGED <<activeModelId, nextModelId, nextServiceId, session, exported, manager, provider>>

DeleteService(serviceId) ==
    /\ Idle
    /\ models' = updateActiveModelData(models,
           [i \in DOMAIN models |-> [models[i].data EXCEPT
               !.services   = SelectSeq(@, LAMBDA s : s.id # serviceId),
               !.budgetData = Omit(@, serviceId)]])
    /\ Returns
    /\ Step
    /\ last' = [type |-> "DELETE_SERVICE", serviceId |-> serviceId]
    /\ UNCHANGED <<activeModelId, nextModelId, nextServiceId, session, exported, manager, provider>>

SetBudgetConfig(config) ==
    /\ Idle
    /\ models' = updateActiveModelData(models,
           [i \in DOMAIN models |-> [models[i].data EXCEPT !.budgetConfig = config]])
    /\ Returns
    /\ Step
    /\ last' = [type |-> "SET_BUDGET_CONFIG"]
    /\ UNCHANGED <<activeModelId, nextModelId, nextServiceId, session, exported, manager, provider>>

\* The updater runs once per model whose id is the active id; when it throws,
\* the dispatch throws and the store keeps its state.
UpdaterThrows(results) ==
    \E i \in DOMAIN models : models[i].id = activeModelId /\ results[i].threw

SetBudgetField(serviceId, monthIndex, field, value) ==
    /\ Idle
    /\ LET results == [i \in DOMAIN models |->
                          SetBudgetFieldData(models[i].data, serviceId, monthIndex,
                                             field, value)]
       IN IF UpdaterThrows(results)
          THEN /\ thrown' = TRUE
               /\ UNCHANGED models
          ELSE /\ models' = updateActiveModelData(models,
                                [i \in DOMAIN models |-> results[i].data])
               /\ Returns
    /\ Step
    /\ last' = [type |-> "SET_BUDGET_FIELD", serviceId |-> serviceId,
                monthIndex |-> monthIndex, field |-> field, value |-> value]
    /\ UNCHANGED <<activeModelId, nextModelId, nextServiceId, session, exported, manager, provider>>

\* The mutation of SET_SERVICE_BUDGET that gives the budget to every service
\* that has one.
SetServiceBudgetData_EveryService(data, serviceId, serviceBudget) ==
    [data EXCEPT !.budgetData =
        [k \in Keys(data.budgetData) \cup {serviceId} |-> serviceBudget]]

SetServiceBudgetData(data, serviceId, serviceBudget) ==
    [data EXCEPT !.budgetData = Put(data.budgetData, serviceId, serviceBudget)]

SetServiceBudget(serviceId, serviceBudget) ==
    /\ Idle
    /\ models' = updateActiveModelData(models,
           [i \in DOMAIN models |->
               SetServiceBudgetData(models[i].data, serviceId, serviceBudget)])
    /\ Returns
    /\ Step
    /\ last' = [type |-> "SET_SERVICE_BUDGET", serviceId |-> serviceId]
    /\ UNCHANGED <<activeModelId, nextModelId, nextServiceId, session, exported, manager, provider>>

ClearOverride(serviceId, monthIndex, field) ==
    /\ Idle
    /\ IF monthIndex = 0
       THEN /\ UNCHANGED models
            /\ Returns
       ELSE LET results == [i \in DOMAIN models |->
                               ClearOverrideData(models[i].data, serviceId,
                                                 monthIndex, field)]
            IN IF UpdaterThrows(results)
               THEN /\ thrown' = TRUE
                    /\ UNCHANGED models
               ELSE /\ models' = updateActiveModelData(models,
                                     [i \in DOMAIN models |-> results[i].data])
                    /\ Returns
    /\ Step
    /\ last' = [type |-> "CLEAR_OVERRIDE", serviceId |-> serviceId,
                monthIndex |-> monthIndex, field |-> field]
    /\ UNCHANGED <<activeModelId, nextModelId, nextServiceId, session, exported, manager, provider>>

----------------------------------------------------------------------------
(* appReducer: import.                                                     *)

\* The models list the IMPORT_MODEL case returns.
ImportModelModels(imported) ==
    IF HasModel(imported.id)
    THEN MapModels(models, imported.id, [i \in DOMAIN models |-> imported])
    ELSE Append(models, imported)

ImportModel(imported) ==
    /\ Idle
    /\ models' = ImportModelModels(imported)
    /\ activeModelId' = imported.id
    /\ Returns
    /\ Step
    /\ last' = [type |-> "IMPORT_MODEL", imported |-> imported]
    /\ UNCHANGED <<nextModelId, nextServiceId, session, exported, manager, provider>>

\* Array.prototype.sort((a, b) => a.timestamp - b.timestamp): a stable sort.
RECURSIVE InsertByTimestamp(_, _)
InsertByTimestamp(sorted, v) ==
    IF sorted = <<>> THEN <<v>>
    ELSE IF sorted[Len(sorted)].timestamp <= v.timestamp
         THEN Append(sorted, v)
         ELSE Append(InsertByTimestamp(SubSeq(sorted, 1, Len(sorted) - 1), v),
                     sorted[Len(sorted)])

RECURSIVE SortByTimestamp(_)
SortByTimestamp(vs) ==
    IF vs = <<>> THEN <<>>
    ELSE InsertByTimestamp(SortByTimestamp(SubSeq(vs, 1, Len(vs) - 1)), vs[Len(vs)])

\* forEach((v, i) => { v.number = i + 1; })
Renumber(vs) == [i \in DOMAIN vs |-> [vs[i] EXCEPT !.number = i]]

Timestamps(vs) == {vs[i].timestamp : i \in DOMAIN vs}

mergeVersions(local, imported) ==
    LET existingTimestamps == Timestamps(local)
        newVersions == SelectSeq(imported, LAMBDA v : v.timestamp \notin existingTimestamps)
        merged      == local \o newVersions
    IN Renumber(SortByTimestamp(merged))

\* The merge de-duplicating by version number instead of by timestamp.
ReducerMerge_ByNumber(existing, imported) ==
    LET existingNumbers == VersionNumbers(existing.versions)
        newVersions == SelectSeq(imported.versions,
                                 LAMBDA v : v.number \notin existingNumbers)
        merged      == existing.versions \o newVersions
    IN Renumber(SortByTimestamp(merged))


ReducerMerge(existing, imported) ==
    LET existingTimestamps == Timestamps(existing.versions)
        newVersions == SelectSeq(imported.versions,
                                 LAMBDA v : v.timestamp \notin existingTimestamps)
        merged      == existing.versions \o newVersions
    IN Renumber(SortByTimestamp(merged))

\* The merge taking over the imported model's working data as well.
ImportModelMerge_TakingData(imported) ==
    /\ Idle
    /\ IF ~HasModel(imported.id)
       THEN UNCHANGED models
       ELSE LET existing == FindModel(imported.id)
                merged   == ReducerMerge(existing, imported)
            IN models' = MapModels(models, imported.id,
                   [i \in DOMAIN models |->
                       [models[i] EXCEPT !.versions = merged, !.data = imported.data,
                                         !.updatedAt = now]])
    /\ Returns
    /\ Step
    /\ last' = [type |-> "IMPORT_MODEL_MERGE", imported |-> imported]
    /\ UNCHANGED <<activeModelId, nextModelId, nextServiceId, session, exported, manager, provider>>


\* The models list the IMPORT_MODEL_MERGE case returns.
ImportModelMergeModels(imported) ==
    IF ~HasModel(imported.id)
    THEN models
    ELSE LET existing == FindModel(imported.id)
             merged   == ReducerMerge(existing, imported)
         IN MapModels(models, imported.id,
                [i \in DOMAIN models |->
                    [models[i] EXCEPT !.versions = merged, !.updatedAt = now]])

ImportModelMerge(imported) ==
    /\ Idle
    /\ models' = ImportModelMergeModels(imported)
    /\ Returns
    /\ Step
    /\ last' = [type |-> "IMPORT_MODEL_MERGE", imported |-> imported]
    /\ UNCHANGED <<activeModelId, nextModelId, nextServiceId, session, exported, manager, provider>>

----------------------------------------------------------------------------
(* dataIO: exportModel and importModel.                                    *)

\* An archive is [entry, name, doc]: name is the file's name without its
\* ".zip", entry tells which data file it holds
\* ("model" for cloud-budgetter-model.json, "legacy" for
\* cloud-budgetter-data.json, "none" for neither), doc is that file's text,
\* either [parses |-> FALSE] or [parses |-> TRUE, value |-> v], where v is what
\* JSON.parse returns: [type |-> "object", fields |-> record] or a value of
\* another type.

\* model.name.replace(/[^a-zA-Z0-9-_ ]/g, '').replace(/\s+/g, '-'), on the
\* names models have here.
SafeName(name) ==
    CASE name = "Default Budget" -> "Default-Budget"
      [] name = "Imported (imported)" -> "Imported-imported"
      [] OTHER -> name

\* JSON.parse(JSON.stringify(model)) for a BudgetModel.
JsonCloneModel(model) ==
    [p \in Keys(model) |->
        CASE p = "data" -> JsonClone(model.data)
          [] p = "versions" ->
                [i \in DOMAIN model.versions |->
                    [q \in Keys(model.versions[i]) |->
                        IF q = "data" THEN JsonClone(model.versions[i].data)
                        ELSE model.versions[i][q]]]
          [] OTHER -> model[p]]

\* exportModel without the filter on `shared`.
exportModel_AllVersions(model, t) ==
    [entry |-> "model",
     name  |-> SafeName(model.name) \o "-" \o ToString(t),
     doc   |-> [parses |-> TRUE,
                value  |-> [type |-> "object", fields |-> JsonCloneModel(model)]]]


\* The archive exportModel saves at instant t.
exportModel(model, t) ==
    LET exportable == [model EXCEPT !.versions = SelectSeq(@, LAMBDA v : v.shared)]
    IN [entry |-> "model",
        name  |-> SafeName(model.name) \o "-" \o ToString(t),
        doc   |-> [parses |-> TRUE,
                   value  |-> [type |-> "object", fields |-> JsonCloneModel(exportable)]]]

Rejected(message) == [ok |-> FALSE, message |-> message]

Resolved(model) == [ok |-> TRUE, model |-> model]

\* An imported version given a name of the import's own.
ImportedVersionOf_Renamed(v) ==
    [number |-> v.number, name |-> "Imported version", timestamp |-> v.timestamp,
     shared |-> TRUE, data |-> v.data]


\* One version of an imported document, marked shared.
ImportedVersionOf(v) ==
    [number |-> v.number, name |-> v.name, timestamp |-> v.timestamp,
     shared |-> TRUE, data |-> v.data]

\* importModel taking a flat state from either data file: the legacy branch
\* without its `isLegacy` test.
importModel_AnyFlat(file, t, freshId) ==
    IF file.entry = "none"
    THEN Rejected("Invalid archive: no recognizable data file found")
    ELSE IF ~file.doc.parses
    THEN Rejected("SyntaxError")
    ELSE IF file.doc.value.type # "object"
    THEN Rejected("Invalid data format")
    ELSE LET parsed == file.doc.value.fields
         IN IF "services" \in Keys(parsed)
            THEN Resolved([id        |-> freshId,
                           name      |-> file.name,
                           createdAt |-> t,
                           updatedAt |-> t,
                           data      |-> [services     |-> parsed.services,
                                          budgetConfig |-> parsed.budgetConfig,
                                          budgetData   |-> parsed.budgetData],
                           versions  |-> <<>>])
            ELSE IF /\ "id" \in Keys(parsed)
                    /\ "data" \in Keys(parsed)
                    /\ "services" \in Keys(parsed.data)
            THEN LET oldVersions == IF "versions" \in Keys(parsed)
                                    THEN parsed.versions ELSE <<>>
                     versions == [i \in DOMAIN oldVersions |->
                                     ImportedVersionOf(oldVersions[i])]
                 IN Resolved(Put(parsed, "versions", Renumber(SortByTimestamp(versions))))
            ELSE Rejected("Invalid data format")


\* importModel(file) settling at instant t, with freshId the id
\* crypto.randomUUID() would return: Resolved(model) or Rejected(message).
importModel(file, t, freshId) ==
    IF file.entry = "none"
    THEN Rejected("Invalid archive: no recognizable data file found")
    ELSE IF ~file.doc.parses
    THEN Rejected("SyntaxError")
    ELSE IF file.doc.value.type # "object"
    THEN Rejected("Invalid data format")
    ELSE LET parsed == file.doc.value.fields
         IN IF file.entry = "legacy" /\ "services" \in Keys(parsed)
            THEN Resolved([id        |-> freshId,
                           name      |-> file.name,
                           createdAt |-> t,
                           updatedAt |-> t,
                           data      |-> [services     |-> parsed.services,
                                          budgetConfig |-> parsed.budgetConfig,
                                          budgetData   |-> parsed.budgetData],
                           versions  |-> <<>>])
            ELSE IF /\ "id" \in Keys(parsed)
                    /\ "data" \in Keys(parsed)
                    /\ "services" \in Keys(parsed.data)
            THEN LET oldPointVersions == IF "pointVersions" \in Keys(parsed)
                                         THEN parsed.pointVersions ELSE <<>>
                     oldVersions == IF "versions" \in Keys(parsed)
                                    THEN parsed.versions ELSE <<>>
                     versions == [i \in DOMAIN oldVersions |->
                                     ImportedVersionOf(oldVersions[i])]
                                 \o [i \in DOMAIN oldPointVersions |->
                                        ImportedVersionOf(oldPointVersions[i])]
                     rest == Omit(parsed, "pointVersions")
                 IN Resolved(Put(rest, "versions", Renumber(SortByTimestamp(versions))))
            ELSE Rejected("Invalid data format")

----------------------------------------------------------------------------
(* editReducer: the edit session of one service's budget.                  *)

deepCloneBudget(sb) == [i \in Months |-> [f \in Fields |-> sb[i][f]]]

\* applyFieldChange without the `monthIndex > 0` test: the edited month is
\* always marked overridden.
applyFieldChange_AlwaysOverridden(current, monthIndex, field, value) ==
    [i \in Months |-> [f \in Fields |->
        IF f # field THEN current[i][f]
        ELSE IF i = monthIndex THEN Cell(value, TRUE)
        ELSE IF monthIndex = 0 /\ ~current[i][f].isOverridden THEN Cell(value, FALSE)
        ELSE current[i][f]]]


applyFieldChange(current, monthIndex, field, value) ==
    [i \in Months |-> [f \in Fields |->
        IF f # field THEN current[i][f]
        ELSE IF i = monthIndex THEN Cell(value, monthIndex > 0)
        ELSE IF monthIndex = 0 /\ ~current[i][f].isOverridden THEN Cell(value, FALSE)
        ELSE current[i][f]]]

\* preChange is <<>> (null) or <<budget>>.
InitialEditState(sb) ==
    [current |-> deepCloneBudget(sb), undoStack |-> <<>>, redoStack |-> <<>>,
     preChange |-> <<>>]

\* The mutation of EditSetValue that takes the snapshot at every SET_VALUE.
EditSetValue_SnapshotEachTime(state, monthIndex, field, value) ==
    [state EXCEPT !.current = applyFieldChange(state.current, monthIndex, field, value),
                  !.preChange = <<deepCloneBudget(state.current)>>]

EditSetValue(state, monthIndex, field, value) ==
    LET preChange == IF state.preChange # <<>> THEN state.preChange
                     ELSE <<deepCloneBudget(state.current)>>
        next      == applyFieldChange(state.current, monthIndex, field, value)
    IN [state EXCEPT !.current = next, !.preChange = preChange]

EditSetFieldCommit(state, monthIndex, field, value) ==
    LET snapshot == deepCloneBudget(state.current)
        next     == applyFieldChange(state.current, monthIndex, field, value)
    IN [current   |-> next,
        undoStack |-> Append(state.undoStack, snapshot),
        redoStack |-> <<>>,
        preChange |-> <<>>]

\* The mutation of EditClearOverride that clears the flag and keeps the
\* month's own value.
EditClearOverride_KeepingValue(state, monthIndex, field) ==
    IF monthIndex = 0 THEN state
    ELSE LET snapshot == deepCloneBudget(state.current)
             next     == [state.current EXCEPT
                             ![monthIndex][field] = Cell(@.value, FALSE)]
         IN [current   |-> next,
             undoStack |-> Append(state.undoStack, snapshot),
             redoStack |-> <<>>,
             preChange |-> <<>>]

EditClearOverride(state, monthIndex, field) ==
    IF monthIndex = 0 THEN state
    ELSE LET snapshot    == deepCloneBudget(state.current)
             sourceValue == state.current[0][field].value
             next        == [state.current EXCEPT
                                ![monthIndex][field] = Cell(sourceValue, FALSE)]
         IN [current   |-> next,
             undoStack |-> Append(state.undoStack, snapshot),
             redoStack |-> <<>>,
             preChange |-> <<>>]

RECURSIVE Pow(_, _)
Pow(b, k) == IF k = 0 THEN 1 ELSE b * Pow(b, k - 1)

\* Math.round(a / b) for b > 0: halves round up.
RoundDiv(a, b) == (2 * a + b) \div (2 * b)

\* The mutation of EditBulkAdjust that applies the multiplier once in every
\* month, compounding or not.
EditBulkAdjust_NeverCompounding(state, field, fromMonth, multiplier, min, compound) ==
    LET snapshot == deepCloneBudget(state.current)
        next == [m \in Months |-> [f \in Fields |->
                    IF f # field \/ m < fromMonth THEN state.current[m][f]
                    ELSE Cell(Max(min, RoundDiv(state.current[m][f].value * multiplier.num,
                                                multiplier.den)),
                              m > 0)]]
    IN [current   |-> next,
        undoStack |-> Append(state.undoStack, snapshot),
        redoStack |-> <<>>,
        preChange |-> <<>>]

\* multiplier is the fraction num / den.
\* The mutation of EditBulkAdjust that leaves the flags of the months it
\* rewrites as they were.
EditBulkAdjust_KeepingFlags(state, field, fromMonth, multiplier, min, compound) ==
    LET snapshot == deepCloneBudget(state.current)
        next == [m \in Months |-> [f \in Fields |->
                    IF f # field \/ m < fromMonth THEN state.current[m][f]
                    ELSE LET base   == state.current[m][f].value
                             k      == IF compound THEN m - fromMonth + 1 ELSE 1
                             newVal == Max(min, RoundDiv(base * Pow(multiplier.num, k),
                                                         Pow(multiplier.den, k)))
                         IN Cell(newVal, state.current[m][f].isOverridden)]]
    IN [current   |-> next,
        undoStack |-> Append(state.undoStack, snapshot),
        redoStack |-> <<>>,
        preChange |-> <<>>]

EditBulkAdjust(state, field, fromMonth, multiplier, min, compound) ==
    LET snapshot == deepCloneBudget(state.current)
        next == [m \in Months |-> [f \in Fields |->
                    IF f # field \/ m < fromMonth THEN state.current[m][f]
                    ELSE LET base   == state.current[m][f].value
                             k      == IF compound THEN m - fromMonth + 1 ELSE 1
                             newVal == Max(min, RoundDiv(base * Pow(multiplier.num, k),
                                                         Pow(multiplier.den, k)))
                         IN Cell(newVal, m > 0)]]
    IN [current   |-> next,
        undoStack |-> Append(state.undoStack, snapshot),
        redoStack |-> <<>>,
        preChange |-> <<>>]

EditCommit(state) ==
    IF state.preChange = <<>> THEN state
    ELSE [current   |-> state.current,
          undoStack |-> Append(state.undoStack, state.preChange[1]),
          redoStack |-> <<>>,
          preChange |-> <<>>]

\* The mutation of EditUndo that does not keep the budget it leaves for REDO.
EditUndo_ForgettingCurrent(state) ==
    IF Len(state.undoStack) = 0 THEN state
    ELSE [current   |-> state.undoStack[Len(state.undoStack)],
          undoStack |-> SubSeq(state.undoStack, 1, Len(state.undoStack) - 1),
          redoStack |-> Append(state.redoStack, state.undoStack[Len(state.undoStack)]),
          preChange |-> <<>>]

EditUndo(state) ==
    IF Len(state.undoStack) = 0 THEN state
    ELSE [current   |-> state.undoStack[Len(state.undoStack)],
          undoStack |-> SubSeq(state.undoStack, 1, Len(state.undoStack) - 1),
          redoStack |-> Append(state.redoStack, deepCloneBudget(state.current)),
          preChange |-> <<>>]

EditRedo(state) ==
    IF Len(state.redoStack) = 0 THEN state
    ELSE [current   |-> state.redoStack[Len(state.redoStack)],
          undoStack |-> Append(state.undoStack, deepCloneBudget(state.current)),
          redoStack |-> SubSeq(state.redoStack, 1, Len(state.redoStack) - 1),
          preChange |-> <<>>]

----------------------------------------------------------------------------
(* BudgetAdjustModal: opening, editing, accepting and cancelling a session. *)

ActiveServices == IF HasModel(activeModelId) THEN ActiveModel.data.services ELSE <<>>

\* BudgetPage renders the modal for a selected service that has a budget.
\* The session keeps, for the record, the AppState it was opened on.
OpenSession(i) ==
    /\ Idle
    /\ i \in DOMAIN ActiveServices
    /\ ActiveServices[i].id \in Keys(ActiveModel.data.budgetData)
    /\ LET service == ActiveServices[i]
       IN session' = [open      |-> TRUE,
                      serviceId |-> service.id,
                      service   |-> service,
                      opened    |-> [models |-> models, activeModelId |-> activeModelId],
                      edit      |-> InitialEditState(ActiveModel.data.budgetData[service.id])]
    /\ Step
    /\ last' = [type |-> "OPEN_SESSION", serviceId |-> ActiveServices[i].id]
    /\ UNCHANGED <<models, activeModelId, nextModelId, nextServiceId, thrown, exported, manager, provider>>

\* editDispatch(action): only the session's state changes.  The label of the
\* action keeps the state the session had before it.
EditDispatch(next, label) ==
    /\ session.open
    /\ session' = [session EXCEPT !.edit = next]
    /\ Step
    /\ last' = Put(label, "before", session.edit)
    /\ UNCHANGED <<models, activeModelId, nextModelId, nextServiceId, thrown, exported, manager, provider>>

\* The drag gesture a SET_VALUE dispatched now belongs to: the state the
\* session had before the first of the SET_VALUE actions dispatched in a row,
\* and how many of them there are.
Gesture ==
    IF last.type = "SET_VALUE"
    THEN [start |-> last.gesture.start, n |-> last.gesture.n + 1]
    ELSE [start |-> session.edit, n |-> 1]

SessionSetValue(monthIndex, field, value) ==
    /\ session.open
    /\ EditDispatch(EditSetValue(session.edit, monthIndex, field, value),
                    [type |-> "SET_VALUE", monthIndex |-> monthIndex,
                     field |-> field, value |-> value, gesture |-> Gesture])

SessionSetFieldCommit(monthIndex, field, value) ==
    /\ session.open
    /\ EditDispatch(EditSetFieldCommit(session.edit, monthIndex, field, value),
                    [type |-> "SET_FIELD_COMMIT", monthIndex |-> monthIndex,
                     field |-> field, value |-> value])

SessionClearOverride(monthIndex, field) ==
    /\ session.open
    /\ EditDispatch(EditClearOverride(session.edit, monthIndex, field),
                    [type |-> "SESSION_CLEAR_OVERRIDE", monthIndex |-> monthIndex,
                     field |-> field])

SessionBulkAdjust(field, fromMonth, multiplier, min, compound) ==
    /\ session.open
    /\ EditDispatch(EditBulkAdjust(session.edit, field, fromMonth, multiplier, min, compound),
                    [type |-> "BULK_ADJUST", field |-> field, fromMonth |-> fromMonth,
                     multiplier |-> multiplier, min |-> min, compound |-> compound])

SessionCommit ==
    /\ session.open
    /\ EditDispatch(EditCommit(session.edit),
                    [type |-> "COMMIT",
                     gesture |-> IF last.type = "SET_VALUE" THEN <<last.gesture>> ELSE <<>>])

SessionUndo ==
    /\ session.open
    /\ EditDispatch(EditUndo(session.edit), [type |-> "UNDO", prev |-> Omit(last, "prev")])

SessionRedo ==
    /\ session.open
    /\ EditDispatch(EditRedo(session.edit),
                    [type |-> "REDO",
                     prev |-> IF last.type = "UNDO" THEN last ELSE Omit(last, "prev")])

\* handleOK: SET_SERVICE_BUDGET, then UPDATE_SERVICE when the unit cost typed
\* into the modal differs from the service's.
SessionOK(localUnitCost) ==
    /\ session.open
    /\ LET afterBudget ==
               updateActiveModelData(models,
                   [i \in DOMAIN models |->
                       SetServiceBudgetData(models[i].data, session.serviceId,
                                            session.edit.current)])
           afterCost ==
               updateActiveModelData(afterBudget,
                   [i \in DOMAIN afterBudget |->
                       UpdateServiceData(afterBudget[i].data,
                           [session.service EXCEPT !.unitCost = localUnitCost])])
       IN models' = IF localUnitCost # session.service.unitCost
                    THEN afterCost ELSE afterBudget
    /\ session' = NoSession
    /\ Returns
    /\ Step
    /\ last' = [type |-> "SESSION_OK", serviceId |-> session.serviceId,
                serviceBudget |-> session.edit.current, session |-> session]
    /\ UNCHANGED <<activeModelId, nextModelId, nextServiceId, exported, manager, provider>>

SessionCancel ==
    /\ session.open
    /\ session' = NoSession
    /\ Step
    /\ last' = [type |-> "SESSION_CANCEL", session |-> session]
    /\ UNCHANGED <<models, activeModelId, nextModelId, nextServiceId, thrown, exported, manager, provider>>

----------------------------------------------------------------------------
(* ModelManager: export, import and the resolution of an id conflict.      *)

\* Up to MaxExported archives are written and up to MaxInFlight imports
\* await their archive at once.
MaxExported == 2
MaxInFlight == 2
\* The provider is mounted in up to MaxStores browser profiles.
MaxStores == 2
\* Store and session are compared over runs of up to MaxRefineTime operations.
MaxRefineTime == 4

\* No ImportConflictModal is shown (it covers the page while it is).
NoDialog == manager.pendingConflict = <<>>

RemoveAt(s, k) == SubSeq(s, 1, k - 1) \o SubSeq(s, k + 1, Len(s))

\* handleExport: the active model is exported; nothing is dispatched.
HandleExport ==
    /\ Idle
    /\ NoDialog
    /\ HasModel(activeModelId)
    /\ Cardinality(exported) < MaxExported
    /\ exported' = exported \cup {[origin |-> ActiveModel,
                                   file   |-> exportModel(ActiveModel, now)]}
    /\ last' = [type |-> "EXPORT"]
    /\ UNCHANGED <<models, activeModelId, now, nextModelId, nextServiceId, thrown,
                   session, manager, provider>>

\* handleImport up to its await: importModel(file) is in flight, and the
\* handler's closure holds the state of the render it was created in.
HandleImportBegin(file) ==
    /\ Idle
    /\ NoDialog
    /\ Len(manager.inFlight) < MaxInFlight
    /\ manager' = [manager EXCEPT
                      !.inFlight = Append(@, [file |-> file, state |-> [models |-> models]])]
    /\ last' = [type |-> "IMPORT_BEGIN"]
    /\ UNCHANGED <<models, activeModelId, now, nextModelId, nextServiceId, thrown,
                   session, exported, provider>>

\* handleImport from its await on: call k settles, at a later instant.
HandleImportSettle(k) ==
    /\ k \in DOMAIN manager.inFlight
    /\ LET call      == manager.inFlight[k]
           r         == importModel(call.file, now, nextModelId)
           remaining == RemoveAt(manager.inFlight, k)
       IN IF ~r.ok
          THEN /\ manager' = [manager EXCEPT !.inFlight = remaining,
                                             !.importError = <<r.message>>]
               /\ last' = [type |-> "IMPORT_REJECTED", message |-> r.message]
               /\ UNCHANGED <<models, activeModelId, nextModelId, thrown>>
          ELSE /\ nextModelId' = IF r.model.id = nextModelId
                                 THEN nextModelId + 1 ELSE nextModelId
               /\ IF r.model.id \in ModelIdsOf(call.state.models)
                  THEN /\ manager' =
                             [inFlight        |-> remaining,
                              pendingConflict |->
                                  <<[existing |-> call.state.models[FindIndex(call.state.models,
                                                                      r.model.id)],
                                     imported |-> r.model]>>,
                              importError     |-> <<>>]
                       /\ last' = [type |-> "IMPORT_CONFLICT", imported |-> r.model]
                       /\ UNCHANGED <<models, activeModelId, thrown>>
                  ELSE /\ models' = ImportModelModels(r.model)
                       /\ activeModelId' = r.model.id
                       /\ Returns
                       /\ manager' = [manager EXCEPT !.inFlight = remaining,
                                                     !.importError = <<>>]
                       /\ last' = [type |-> "IMPORT_MODEL", imported |-> r.model,
                                   handler |-> "handleImport"]
    /\ Step
    /\ UNCHANGED <<nextServiceId, session, exported, provider>>

HandleConflictMerge ==
    /\ ~NoDialog
    /\ LET imported == manager.pendingConflict[1].imported
       IN /\ models' = ImportModelMergeModels(imported)
          /\ last' = [type |-> "IMPORT_MODEL_MERGE", imported |-> imported,
                      handler |-> "handleConflictMerge"]
    /\ manager' = [manager EXCEPT !.pendingConflict = <<>>]
    /\ Returns
    /\ Step
    /\ UNCHANGED <<activeModelId, nextModelId, nextServiceId, session, exported, provider>>

HandleConflictReplace ==
    /\ ~NoDialog
    /\ LET imported == manager.pendingConflict[1].imported
       IN /\ models' = ImportModelModels(imported)
          /\ activeModelId' = imported.id
          /\ last' = [type |-> "IMPORT_MODEL", imported |-> imported,
                      handler |-> "handleConflictReplace"]
    /\ manager' = [manager EXCEPT !.pendingConflict = <<>>]
    /\ Returns
    /\ Step
    /\ UNCHANGED <<nextModelId, nextServiceId, session, exported, provider>>

HandleConflictCopy ==
    /\ ~NoDialog
    /\ LET imported == manager.pendingConflict[1].imported
           copy     == [imported EXCEPT !.id = nextModelId,
                                        !.name = imported.name \o " (imported)"]
       IN /\ models' = ImportModelModels(copy)
          /\ activeModelId' = copy.id
          /\ last' = [type |-> "IMPORT_MODEL", imported |-> copy,
                      handler |-> "handleConflictCopy"]
    /\ nextModelId' = nextModelId + 1
    /\ manager' = [manager EXCEPT !.pendingConflict = <<>>]
    /\ Returns
    /\ Step
    /\ UNCHANGED <<nextServiceId, session, exported, provider>>

\* onCancel of the ImportConflictModal.
HandleConflictCancel ==
    /\ ~NoDialog
    /\ manager' = [manager EXCEPT !.pendingConflict = <<>>]
    /\ last' = [type |-> "CONFLICT_CANCEL"]
    /\ UNCHANGED <<models, activeModelId, now, nextModelId, nextServiceId, thrown,
                   session, exported, provider>>

----------------------------------------------------------------------------
(* calculations.ts and compare.ts: the cost of a month and of a year.      *)

\* A cost is a fraction num/den in lowest terms, den > 0: the arithmetic of
\* calculateMonthCost carried out exactly.
RECURSIVE GCD(_, _)
GCD(a, b) == IF b = 0 THEN a ELSE GCD(b, a % b)

Abs(n) == IF n < 0 THEN 0 - n ELSE n

Ratio(n, d) == LET g == GCD(Abs(n), d) IN [num |-> n \div g, den |-> d \div g]

Plus(x, y) == Ratio(x.num * y.den + y.num * x.den, x.den * y.den)
Minus(x, y) == Ratio(x.num * y.den - y.num * x.den, x.den * y.den)
Times(x, y) == Ratio(x.num * y.num, x.den * y.den)
\* x / y for y > 0.
Over(x, y) == Ratio(x.num * y.den, x.den * y.num)

Whole(n) == Ratio(n, 1)

\* The mutation of calculateMonthCost that divides by the efficiency itself
\* instead of by efficiency / 100.
calculateMonthCost_EfficiencyAsFactor(consumption, unitCost, efficiency, overhead, discount, discountEligible) ==
    LET safeEfficiency    == Max(efficiency, 1)
        effectiveDiscount == IF discountEligible THEN discount ELSE 0
        cost == Times(Over(Times(Whole(consumption * unitCost),
                                 Plus(Whole(1), Ratio(overhead, 100))),
                           Whole(safeEfficiency)),
                      Minus(Whole(1), Ratio(effectiveDiscount, 100)))
    IN IF cost.num > 0 THEN cost ELSE Whole(0)

calculateMonthCost(consumption, unitCost, efficiency, overhead, discount, discountEligible) ==
    LET safeEfficiency    == Max(efficiency, 1)
        effectiveDiscount == IF discountEligible THEN discount ELSE 0
        cost == Times(Over(Times(Whole(consumption * unitCost),
                                 Plus(Whole(1), Ratio(overhead, 100))),
                           Ratio(safeEfficiency, 100)),
                      Minus(Whole(1), Ratio(effectiveDiscount, 100)))
    IN IF cost.num > 0 THEN cost ELSE Whole(0)

FindService(data, serviceId) ==
    data.services[CHOOSE i \in DOMAIN data.services :
                     /\ data.services[i].id = serviceId
                     /\ \A j \in DOMAIN data.services :
                           data.services[j].id = serviceId => i <= j]

\* The cost of month m of a service that data lists with a budget.
MonthCost(data, serviceId, m) ==
    LET service == FindService(data, serviceId)
        e       == data.budgetData[serviceId][m]
    IN calculateMonthCost(e.consumption.value, service.unitCost, e.efficiency.value,
                          e.overhead.value, e.discount.value, service.discountEligible)

RECURSIVE SumCosts(_, _, _)
SumCosts(data, serviceId, m) ==
    IF m = NumMonths THEN Whole(0)
    ELSE LET rest == SumCosts(data, serviceId, m + 1)
         IN IF m \in Keys(data.budgetData[serviceId])
            THEN Plus(MonthCost(data, serviceId, m), rest)
            ELSE rest

\* computeServiceTotal: 0 for a service that data does not list or has no
\* budget for, else the sum of the costs of the months the budget holds.
computeServiceTotal(data, serviceId) ==
    IF serviceId \notin ServiceIdsOf(data) \/ serviceId \notin Keys(data.budgetData)
    THEN Whole(0)
    ELSE SumCosts(data, serviceId, 0)

----------------------------------------------------------------------------
(* compare.ts and CompareModal: two datasets compared service by service.  *)

FIELDS == <<"consumption", "efficiency", "overhead", "discount">>

RECURSIVE Dedupe(_)
\* The elements of s in the order of their first occurrence (a Set built
\* from an array).
Dedupe(s) ==
    IF s = <<>> THEN <<>>
    ELSE LET front == Dedupe(SubSeq(s, 1, Len(s) - 1))
         IN IF \E i \in DOMAIN front : front[i] = s[Len(s)]
            THEN front ELSE Append(front, s[Len(s)])

\* budget[m]?.[field]?.value ?? 0
ValueOrZero(budget, m, field) ==
    IF m \in Keys(budget) /\ field \in Keys(budget[m]) THEN budget[m][field].value ELSE 0

\* The (month, field) pairs in the order the loops visit them.
MonthFieldPairs == [n \in 1 .. (NumMonths * Len(FIELDS)) |->
                       [month |-> (n - 1) \div Len(FIELDS),
                        field |-> FIELDS[((n - 1) % Len(FIELDS)) + 1]]]

FieldDiffs(oldBudget, newBudget) ==
    LET differing == SelectSeq(MonthFieldPairs,
                        LAMBDA p : ValueOrZero(oldBudget, p.month, p.field)
                                     # ValueOrZero(newBudget, p.month, p.field))
    IN [i \in DOMAIN differing |->
           [field |-> differing[i].field, month |-> differing[i].month,
            oldValue |-> ValueOrZero(oldBudget, differing[i].month, differing[i].field),
            newValue |-> ValueOrZero(newBudget, differing[i].month, differing[i].field)]]

\* The entry compareModelData pushes for the service id.
ServiceDiff(older, newer, id) ==
    LET inOld   == id \in ServiceIdsOf(older)
        inNew   == id \in ServiceIdsOf(newer)
        oldCost == computeServiceTotal(older, id)
        newCost == computeServiceTotal(newer, id)
    IN IF ~inOld /\ inNew
       THEN [serviceId |-> id, serviceName |-> FindService(newer, id).name,
             status |-> "added", fieldDiffs |-> <<>>,
             oldTotalCost |-> Whole(0), newTotalCost |-> newCost]
       ELSE IF inOld /\ ~inNew
       THEN [serviceId |-> id, serviceName |-> FindService(older, id).name,
             status |-> "removed", fieldDiffs |-> <<>>,
             oldTotalCost |-> oldCost, newTotalCost |-> Whole(0)]
       ELSE LET fieldDiffs ==
                    IF id \in Keys(older.budgetData) /\ id \in Keys(newer.budgetData)
                    THEN FieldDiffs(older.budgetData[id], newer.budgetData[id])
                    ELSE <<>>
            IN [serviceId |-> id, serviceName |-> FindService(newer, id).name,
                status |-> IF Len(fieldDiffs) > 0 THEN "changed" ELSE "unchanged",
                fieldDiffs |-> fieldDiffs,
                oldTotalCost |-> oldCost, newTotalCost |-> newCost]

RECURSIVE SumTotals(_, _)
\* The sum of computeServiceTotal(data, id) over the ids of the sequence.
SumTotals(data, ids) ==
    IF ids = <<>> THEN Whole(0)
    ELSE Plus(SumTotals(data, SubSeq(ids, 1, Len(ids) - 1)),
              computeServiceTotal(data, ids[Len(ids)]))

\* The mutation of compareModelData that totals only the services newer
\* lists.
compareModelData_TotalsOfNewer(older, newer) ==
    LET allServiceIds ==
            Dedupe([i \in DOMAIN older.services |-> older.services[i].id]
                   \o [i \in DOMAIN newer.services |-> newer.services[i].id])
        newerIds == [i \in DOMAIN newer.services |-> newer.services[i].id]
    IN [services      |-> [i \in DOMAIN allServiceIds |->
                              ServiceDiff(older, newer, allServiceIds[i])],
        oldGrandTotal |-> SumTotals(older, newerIds),
        newGrandTotal |-> SumTotals(newer, newerIds)]

compareModelData(older, newer) ==
    LET allServiceIds ==
            Dedupe([i \in DOMAIN older.services |-> older.services[i].id]
                   \o [i \in DOMAIN newer.services |-> newer.services[i].id])
    IN [services      |-> [i \in DOMAIN allServiceIds |->
                              ServiceDiff(older, newer, allServiceIds[i])],
        oldGrandTotal |-> SumTotals(older, allServiceIds),
        newGrandTotal |-> SumTotals(newer, allServiceIds)]

\* CompareModal.getData: the working data for "current" (0 here), else the
\* data of the first version with the number.
CompareData(id) ==
    IF id = 0 THEN ActiveModel.data ELSE FindVersion(ActiveModel.versions, id).data

\* handleCompare with the two sides selected among the options; the label
\* keeps what setResult received.
HandleCompare(leftId, rightId) ==
    /\ Idle
    /\ HasModel(activeModelId)
    /\ {leftId, rightId} \subseteq {0} \cup VersionNumbers(ActiveModel.versions)
    /\ last' = [type |-> "COMPARE", older |-> CompareData(leftId),
                newer |-> CompareData(rightId),
                result |-> compareModelData(CompareData(leftId), CompareData(rightId))]
    /\ UNCHANGED <<models, activeModelId, now, nextModelId, nextServiceId, thrown,
                   session, exported, manager, provider>>

----------------------------------------------------------------------------
(* AppProvider: the state read from localStorage, migrated and handed to   *)
(* the reducer.                                                            *)

\* raw[k] is truthy: the property is there and is not 0 (the properties
\* tested are numbers, arrays and objects).
Truthy(raw, k) == k \in Keys(raw) /\ raw[k] # 0

\* One model of a schema-2 state: versions (shared) and pointVersions (not
\* shared) merged, sorted by timestamp and renumbered.
MigrateModel(m) ==
    LET oldVersions == IF "versions" \in Keys(m) THEN m.versions ELSE <<>>
        oldPointVersions == IF "pointVersions" \in Keys(m) THEN m.pointVersions ELSE <<>>
        merged == [i \in DOMAIN oldVersions |->
                      [number |-> oldVersions[i].number, name |-> oldVersions[i].name,
                       timestamp |-> oldVersions[i].timestamp, shared |-> TRUE,
                       data |-> oldVersions[i].data]]
                  \o [i \in DOMAIN oldPointVersions |->
                         [number |-> oldPointVersions[i].number,
                          name |-> oldPointVersions[i].name,
                          timestamp |-> oldPointVersions[i].timestamp, shared |-> FALSE,
                          data |-> oldPointVersions[i].data]]
    IN Put(Omit(m, "pointVersions"), "versions", Renumber(SortByTimestamp(merged)))

\* The first branch of migrateState is taken: a flat state.
IsFlatState(raw) ==
    ~Truthy(raw, "schemaVersion") /\ (Truthy(raw, "version") \/ "services" \in Keys(raw))

\* The second branch is taken: a state below schema 3 with a models list.
IsOldWrappedState(raw) ==
    /\ ~IsFlatState(raw)
    /\ (IF "schemaVersion" \in Keys(raw) THEN raw.schemaVersion ELSE 0) < 3
    /\ "models" \in Keys(raw)

\* migrateState(raw) at instant t, with freshId the id crypto.randomUUID()
\* would return.
migrateState(raw, t, freshId) ==
    IF IsFlatState(raw)
    THEN LET model ==
                 [id        |-> freshId,
                  name      |-> "Migrated Budget",
                  createdAt |-> t,
                  updatedAt |-> t,
                  data      |->
                      [services     |-> IF "services" \in Keys(raw)
                                        THEN raw.services ELSE <<>>,
                       budgetConfig |-> IF "budgetConfig" \in Keys(raw)
                                        THEN raw.budgetConfig
                                        ELSE [startMonth |-> GetMonth(t),
                                              startYear  |-> GetFullYear(t)],
                       budgetData   |-> IF "budgetData" \in Keys(raw)
                                        THEN raw.budgetData ELSE EmptyObject],
                  versions  |-> <<>>]
         IN [schemaVersion |-> SCHEMA_VERSION, models |-> <<model>>,
             activeModelId |-> model.id]
    ELSE IF IsOldWrappedState(raw)
    THEN Put(Put(raw, "models", [i \in DOMAIN raw.models |-> MigrateModel(raw.models[i])]),
             "schemaVersion", SCHEMA_VERSION)
    ELSE raw

\* The state AppProvider hands to useReducer for savedState.
MigratedState(savedState, t, freshId) ==
    IF Truthy(savedState, "schemaVersion") /\ savedState.schemaVersion >= SCHEMA_VERSION
    THEN savedState
    ELSE migrateState(savedState, t, freshId)

\* The first render of AppProvider.  A state without a models list makes
\* `state.models.find` throw.
Startup ==
    /\ provider.phase = "loading"
    /\ LET saved    == provider.savedState
           migrated == MigratedState(saved, now, nextModelId)
           inPlace  == ~(Truthy(saved, "schemaVersion")
                            /\ saved.schemaVersion >= SCHEMA_VERSION)
                       /\ IsOldWrappedState(saved)
           held     == IF inPlace THEN migrated ELSE saved
       IN /\ nextModelId' = IF migrated # saved /\ IsFlatState(saved)
                            THEN nextModelId + 1 ELSE nextModelId
          /\ IF "models" \in Keys(migrated)
             THEN /\ models' = migrated.models
                  /\ activeModelId' = IF "activeModelId" \in Keys(migrated)
                                      THEN migrated.activeModelId ELSE NoModel
                  /\ thrown' = FALSE
                  /\ provider' = [phase |-> "running", store |-> provider.store,
                                  savedState |-> held,
                                  migrated |-> migrated,
                                  storage |-> MountedStorage(held, provider.storage.item)]
             ELSE /\ thrown' = TRUE
                  /\ provider' = [phase |-> "crashed", store |-> provider.store,
                                  savedState |-> held,
                                  migrated |-> migrated,
                                  storage |-> provider.storage]
                  /\ UNCHANGED <<models, activeModelId>>
    /\ Step
    /\ last' = [type |-> "STARTUP"]
    /\ UNCHANGED <<nextServiceId, session, exported, manager>>

\* The provider mounted in another browser profile, whose localStorage holds
\* no item: useLocalStorage returns createDefaultState(), which is at the
\* current schema; ModelManager starts with no import and no dialog.
FreshStore ==
    /\ provider.phase = "running"
    /\ provider.store < MaxStores
    /\ LET fresh == createDefaultState(now, nextModelId)
       IN /\ models' = fresh.models
          /\ activeModelId' = fresh.activeModelId
          /\ provider' = [phase |-> "running", store |-> provider.store + 1,
                          savedState |-> fresh, migrated |-> fresh,
                          storage |-> MountedStorage(fresh, <<>>)]
    /\ nextModelId' = nextModelId + 1
    /\ manager' = NoImports
    /\ session' = NoSession
    /\ thrown' = FALSE
    /\ last' = [type |-> "FRESH_STORE"]
    /\ UNCHANGED <<now, nextServiceId, exported>>

----------------------------------------------------------------------------
(* The inputs of the dispatched actions.                                   *)

\* Ids an action can name: the ids minted so far, and 0, minted elsewhere.
ModelIdInputs == 0 .. (nextModelId - 1)
ServiceIdInputs == 0 .. (nextServiceId - 1)

\* Version numbers an action can name: those of the active model, and 0 (none).
ActiveVersionNumbers ==
    IF HasModel(activeModelId) THEN VersionNumbers(ActiveModel.versions) ELSE {}

VersionNumberInputs == {0} \cup ActiveVersionNumbers

\* The ids of the services the active model lists.
ActiveServiceIds == {ActiveServices[i].id : i \in DOMAIN ActiveServices}

ServiceInput == [name |-> "A", unitType |-> "GB", unitCost |-> 10,
                 discountEligible |-> FALSE,
                 defaultEfficiency |-> 100, defaultOverhead |-> 0]

SeedInputs == {<<>>, <<[consumption |-> 10, monthlyGrowth |-> 5]>>}

\* The services the form adds, and the seeds it hands over with them: none,
\* a rising ramp, and a falling ramp that goes below 0 from month 3 on (the
\* form takes any growth with a first-month consumption above 0).
ServiceInputs ==
    {ServiceInput,
     [name |-> "B", unitType |-> "h", unitCost |-> 3, discountEligible |-> TRUE,
      defaultEfficiency |-> 80, defaultOverhead |-> 10]}

RampInputs == SeedInputs \cup {<<[consumption |-> 10, monthlyGrowth |-> 0 - 5]>>}

\* The edited form of a service.
UpdateInput(id) == [id |-> id, name |-> "A", unitType |-> "GB", unitCost |-> 20,
                    discountEligible |-> TRUE,
                    defaultEfficiency |-> 100, defaultOverhead |-> 0,
                    createdAt |-> 0]

ConfigInput == [startMonth |-> 6, startYear |-> 1971]

\* A budget as an edit session hands it over.
BudgetInput == applyFieldChange(createServiceBudget(100, 0, <<>>), 5, "consumption", 200)

\* Bulk adjustments: halving, compounded, and doubling, flat.
BulkInputs == {[multiplier |-> [num |-> 1, den |-> 2], compound |-> TRUE],
               [multiplier |-> [num |-> 2, den |-> 1], compound |-> FALSE]}

\* What importModel returns: a model whose versions are all shared, sorted by
\* timestamp and numbered from 1.
ImportedData == createDefaultModelData(6)

ImportedVersion(t) == [number |-> 0, name |-> "imp", timestamp |-> t,
                       shared |-> TRUE, data |-> ImportedData]

ImportedModel(id, vs) ==
    [id |-> id, name |-> "Imported", createdAt |-> 0, updatedAt |-> 0,
     data |-> ImportedData, versions |-> Renumber(SortByTimestamp(vs))]

ImportInputs ==
    {ImportedModel(id, <<ImportedVersion(0), ImportedVersion(1)>>) : id \in ModelIdInputs}

MergeInputs ==
    {ImportedModel(id, vs) :
        id \in ModelIdInputs,
        vs \in {<<ImportedVersion(0)>>,
                <<ImportedVersion(1), ImportedVersion(0)>>,
                <<ImportedVersion(1), ImportedVersion(1)>>}}

\* Archives that importModel rejects: no data file; a data file that is not
\* JSON; JSON that is not an object; an object of neither shape (a flat
\* state in the data file of the model format).
NoEntryArchive == [entry |-> "none", name |-> "empty", doc |-> [parses |-> FALSE]]

GarbageArchive == [entry |-> "model", name |-> "garbage", doc |-> [parses |-> FALSE]]

NullArchive == [entry |-> "model", name |-> "null",
                doc |-> [parses |-> TRUE, value |-> [type |-> "null"]]]

FlatState == [services |-> <<>>, budgetConfig |-> ConfigInput, budgetData |-> EmptyObject]

UnrecognisedArchive ==
    [entry |-> "model", name |-> "flat",
     doc |-> [parses |-> TRUE, value |-> [type |-> "object", fields |-> FlatState]]]

RejectedArchives == {NoEntryArchive, GarbageArchive, NullArchive, UnrecognisedArchive}

\* An archive of the legacy format: a flat state in cloud-budgetter-data.json.
LegacyArchive ==
    [entry |-> "legacy", name |-> "old-budget",
     doc |-> [parses |-> TRUE, value |-> [type |-> "object", fields |-> FlatState]]]

\* An archive exported by another store, of a model this store never minted.
ForeignArchive ==
    exportModel(ImportedModel(0, <<ImportedVersion(0), ImportedVersion(1)>>), 0)

\* The archives the user can pick: those above and those exported here.
ArchiveInputs ==
    RejectedArchives \cup {LegacyArchive, ForeignArchive} \cup {e.file : e \in exported}

\* What useLocalStorage returns at the first render: the default state when
\* localStorage holds no item, else the document stored: a flat state from
\* before schema versions, a schema-2 state with models holding versions and
\* pointVersions, a state below schema 3 without a models list, a schema-3
\* state.
StoredData == createDefaultModelData(0)

FlatDocument == [version |-> 1, services |-> <<>>, budgetData |-> EmptyObject]

OldVersion(n, t) == [number |-> n, name |-> "old", timestamp |-> t, data |-> StoredData]

Schema2Document ==
    [schemaVersion |-> 2,
     models |-> << [id |-> 1, name |-> "Stored", createdAt |-> 0, updatedAt |-> 0,
                    data |-> StoredData,
                    versions |-> <<OldVersion(1, 2)>>,
                    pointVersions |-> <<OldVersion(1, 1), OldVersion(2, 3)>>] >>,
     activeModelId |-> 1]

Schema2WithoutModels == [schemaVersion |-> 2, activeModelId |-> NoModel]

Schema3Document ==
    [schemaVersion |-> 3,
     models |-> << [id |-> 1, name |-> "Stored", createdAt |-> 0, updatedAt |-> 0,
                    data |-> StoredData,
                    versions |-> << [number |-> 1, name |-> "old", timestamp |-> 1,
                                     shared |-> FALSE, data |-> StoredData] >>] >>,
     activeModelId |-> 1]

SavedStates ==
    {DefaultState, FlatDocument, Schema2Document, Schema2WithoutModels, Schema3Document}

----------------------------------------------------------------------------
(* Spec: the store, every action of appReducer dispatched with any id.     *)

\* Runs of the whole action set are explored up to MaxStoreTime actions.
Within == now < MaxStoreTime

Next ==
    \/ Within /\ CreateModel("New")
    \/ \E id \in ModelIdInputs : Within /\ RenameModel(id, "Renamed")
    \/ \E id \in ModelIdInputs : Within /\ DeleteModel(id)
    \/ \E id \in ModelIdInputs : Within /\ SwitchModel(id)
    \/ \E id \in ModelIdInputs : Within /\ DuplicateModel(id, "Copy")
    \/ \E shared \in BOOLEAN : Within /\ SaveVersion("v", shared)
    \/ \E n \in VersionNumberInputs : Within /\ RestoreVersion(n)
    \/ \E n \in VersionNumberInputs : Within /\ DeleteVersion(n)
    \/ \E n \in VersionNumberInputs : Within /\ ToggleVersionShared(n)
    \/ \E seed \in SeedInputs : Within /\ AddService(ServiceInput, seed)
    \/ \E id \in ServiceIdInputs : Within /\ UpdateService(UpdateInput(id))
    \/ \E id \in ServiceIdInputs : Within /\ DeleteService(id)
    \/ Within /\ SetBudgetConfig(ConfigInput)
    \/ \E id \in ServiceIdInputs, m \in EditMonths, f \in EditFields, v \in EditValues :
          Within /\ SetBudgetField(id, m, f, v)
    \/ \E id \in ServiceIdInputs, m \in EditMonths, f \in EditFields :
          Within /\ ClearOverride(id, m, f)
    \/ \E id \in ServiceIdInputs : Within /\ SetServiceBudget(id, BudgetInput)
    \/ \E imported \in ImportInputs : Within /\ ImportModel(imported)
    \/ \E imported \in MergeInputs : Within /\ ImportModelMerge(imported)

Spec == Init /\ [][Next]_vars

----------------------------------------------------------------------------
(* SpecBudget: one model edited through the store and through edit         *)
(* sessions, every action naming a service the model lists.                *)

NextBudget ==
    \/ \E seed \in SeedInputs : AddService(ServiceInput, seed)
    \/ \E id \in ActiveServiceIds, m \in EditMonths, f \in EditFields, v \in EditValues :
          SetBudgetField(id, m, f, v)
    \/ \E id \in ActiveServiceIds, m \in EditMonths, f \in EditFields :
          ClearOverride(id, m, f)
    \/ SaveVersion("v", FALSE)
    \/ \E n \in ActiveVersionNumbers : RestoreVersion(n)
    \/ \E i \in DOMAIN ActiveServices : OpenSession(i)
    \/ \E m \in EditMonths, f \in EditFields, v \in EditValues : SessionSetValue(m, f, v)
    \/ \E m \in EditMonths, f \in EditFields, v \in EditValues : SessionSetFieldCommit(m, f, v)
    \/ \E m \in EditMonths, f \in EditFields : SessionClearOverride(m, f)
    \/ \E f \in EditFields, from \in EditMonths, b \in BulkInputs :
          SessionBulkAdjust(f, from, b.multiplier, 0, b.compound)
    \/ SessionCommit
    \/ SessionUndo
    \/ SessionRedo
    \/ \E uc \in {ServiceInput.unitCost, UpdateInput(0).unitCost} : SessionOK(uc)
    \/ SessionCancel

SpecBudget == Init /\ [][NextBudget]_vars

----------------------------------------------------------------------------
(* SpecVersions: the version list of one model under save, delete,         *)
(* restore, share and merge.                                               *)

NextVersions ==
    \/ \E shared \in BOOLEAN : SaveVersion("v", shared)
    \/ \E n \in VersionNumberInputs : DeleteVersion(n)
    \/ \E n \in VersionNumberInputs : RestoreVersion(n)
    \/ \E n \in VersionNumberInputs : ToggleVersionShared(n)
    \/ \E imported \in MergeInputs : ImportModelMerge(imported)
    \/ SetBudgetConfig(ConfigInput)

SpecVersions == Init /\ [][NextVersions]_vars

----------------------------------------------------------------------------
(* SpecExchange: a model saved, edited, exported, deleted and imported     *)
(* again through ModelManager, one import at a time.                       *)

NextExchange ==
    \/ \E shared \in BOOLEAN : NoDialog /\ SaveVersion("v", shared)
    \/ NoDialog /\ SetBudgetConfig(ConfigInput)
    \/ NoDialog /\ DeleteModel(activeModelId)
    \/ HandleExport
    \/ \E e \in exported : manager.inFlight = <<>> /\ HandleImportBegin(e.file)
    \/ \E k \in DOMAIN manager.inFlight : HandleImportSettle(k)
    \/ HandleConflictMerge
    \/ HandleConflictReplace
    \/ HandleConflictCopy
    \/ HandleConflictCancel

SpecExchange == Init /\ [][NextExchange]_vars

----------------------------------------------------------------------------
(* SpecImports: archives from elsewhere imported through ModelManager,     *)
(* several imports in flight and settling in any order, the local models   *)
(* edited meanwhile.                                                       *)

NextImports ==
    \/ \E file \in ArchiveInputs : HandleImportBegin(file)
    \/ \E k \in DOMAIN manager.inFlight : HandleImportSettle(k)
    \/ HandleConflictMerge
    \/ HandleConflictReplace
    \/ HandleConflictCopy
    \/ HandleConflictCancel
    \/ NoDialog /\ SetBudgetConfig(ConfigInput)

SpecImports == Init /\ [][NextImports]_vars

----------------------------------------------------------------------------
(* SpecStartup: the provider started on a stored document, then the models *)
(* and versions managed.                                                   *)

InitStartup ==
    /\ now = 0
    /\ models = <<>>
    /\ activeModelId = NoModel
    /\ nextModelId = 2
    /\ nextServiceId = 1
    /\ thrown = FALSE
    /\ session = NoSession
    /\ exported = {}
    /\ manager = NoImports
    /\ provider \in {[phase |-> "loading", store |-> 1, savedState |-> s,
                        storage |-> [latestValue |-> s, timer |-> FALSE,
                                     item |-> <<s>>, failed |-> FALSE]] :
                       s \in SavedStates}
    /\ last = [type |-> "INIT"]

Running == provider.phase = "running"

NextStartup ==
    \/ Startup
    \/ Running /\ CreateModel("New")
    \/ \E id \in ModelIdInputs : Running /\ SwitchModel(id)
    \/ \E id \in ModelIdInputs : Running /\ DeleteModel(id)
    \/ \E shared \in BOOLEAN : Running /\ SaveVersion("v", shared)
    \/ \E n \in VersionNumberInputs : Running /\ ToggleVersionShared(n)

SpecStartup == InitStartup /\ [][NextStartup]_vars

----------------------------------------------------------------------------
(* SpecCost: one service budgeted month by month, a shared version saved,  *)
(* one archive exported, and the archive imported in another store.        *)

ScenarioMonths == {0, 3}

NextCost ==
    \/ \E seed \in SeedInputs : ActiveServices = <<>> /\ AddService(ServiceInput, seed)
    \/ \E id \in ActiveServiceIds, m \in ScenarioMonths, v \in EditValues :
          SetBudgetField(id, m, "consumption", v)
    \/ SaveVersion("v", TRUE)
    \/ exported = {} /\ HandleExport
    \/ exported # {} /\ FreshStore
    \/ \E e \in exported :
          /\ manager.inFlight = <<>>
          /\ ~HasModel(e.origin.id)
          /\ HandleImportBegin(e.file)
    \/ \E k \in DOMAIN manager.inFlight : HandleImportSettle(k)

SpecCost == Init /\ [][NextCost]_vars

----------------------------------------------------------------------------
(* SpecServices: services added, with and without a seed, and deleted.     *)

NextServices ==
    \/ \E payload \in ServiceInputs, seed \in RampInputs : AddService(payload, seed)
    \/ \E id \in ActiveServiceIds : DeleteService(id)

SpecServices == Init /\ [][NextServices]_vars

----------------------------------------------------------------------------
(* SpecDrag: one edit session, from the modal opened on the budget of a    *)
(* service added at instant 0, with the clock counted from there.          *)

DragService ==
    [id |-> 1, name |-> ServiceInput.name, unitType |-> ServiceInput.unitType,
     unitCost |-> ServiceInput.unitCost,
     discountEligible |-> ServiceInput.discountEligible,
     defaultEfficiency |-> ServiceInput.defaultEfficiency,
     defaultOverhead |-> ServiceInput.defaultOverhead, createdAt |-> 0]

DragBudget(seed) ==
    createServiceBudget(DragService.defaultEfficiency, DragService.defaultOverhead, seed)

InitDrag ==
    /\ now = 0
    /\ \E seed \in SeedInputs :
          /\ models = << [DefaultState.models[1] EXCEPT
                             !.data.services = <<DragService>>,
                             !.data.budgetData = Put(@, DragService.id, DragBudget(seed))] >>
          /\ session = [open      |-> TRUE,
                        serviceId |-> DragService.id,
                        service   |-> DragService,
                        opened    |-> [models |-> models,
                                       activeModelId |-> DefaultState.activeModelId],
                        edit      |-> InitialEditState(DragBudget(seed))]
    /\ activeModelId = DefaultState.activeModelId
    /\ nextModelId = 2
    /\ nextServiceId = 2
    /\ thrown = FALSE
    /\ exported = {}
    /\ manager = NoImports
    /\ provider = [phase |-> "running", store |-> 1, savedState |-> DefaultState,
                   migrated |-> DefaultState,
                   storage |-> MountedStorage(DefaultState, <<>>)]
    /\ last = [type |-> "OPEN_SESSION", serviceId |-> DragService.id]

NextDrag ==
    \/ \E m \in EditMonths, f \in EditFields, v \in EditValues : SessionSetValue(m, f, v)
    \/ \E m \in EditMonths, f \in EditFields, v \in EditValues : SessionSetFieldCommit(m, f, v)
    \/ \E m \in EditMonths, f \in EditFields : SessionClearOverride(m, f)
    \/ SessionCommit
    \/ SessionUndo
    \/ SessionRedo

SpecDrag == InitDrag /\ [][NextDrag]_vars

----------------------------------------------------------------------------
(* SpecUndo: one edit session in which a later month is edited, the whole  *)
(* year adjusted in bulk, and edits undone and redone.                     *)

LaterMonth == 5

NextUndo ==
    \/ \E v \in EditValues : SessionSetValue(LaterMonth, "consumption", v)
    \/ \E v \in EditValues : SessionSetFieldCommit(LaterMonth, "consumption", v)
    \/ SessionClearOverride(LaterMonth, "consumption")
    \/ \E b \in BulkInputs : SessionBulkAdjust("consumption", 0, b.multiplier, 0, b.compound)
    \/ SessionCommit
    \/ SessionUndo
    \/ SessionRedo

SpecUndo == InitDrag /\ [][NextUndo]_vars

----------------------------------------------------------------------------
(* SpecBulk: one edit session in which the charts adjust consumption and   *)
(* efficiency in bulk, between drags; runs of up to MaxStoreTime actions.  *)

\* The field each chart of the modal adjusts, with the min it passes.
ChartInputs == {[field |-> "consumption", min |-> 0], [field |-> "efficiency", min |-> 1]}

NextBulk ==
    \/ \E c \in ChartInputs, from \in EditMonths, b \in BulkInputs :
          Within /\ SessionBulkAdjust(c.field, from, b.multiplier, c.min, b.compound)
    \/ \E v \in EditValues : Within /\ SessionSetValue(LaterMonth, "consumption", v)
    \/ Within /\ SessionUndo

SpecBulk == InitDrag /\ [][NextBulk]_vars

----------------------------------------------------------------------------
(* SpecCompare: services added, edited and deleted, versions saved, and a  *)
(* version compared with the working data.                                 *)

NextCompare ==
    \/ \E seed \in SeedInputs : AddService(ServiceInput, seed)
    \/ \E id \in ActiveServiceIds : UpdateService(UpdateInput(id))
    \/ \E id \in ActiveServiceIds : DeleteService(id)
    \/ \E id \in ActiveServiceIds, v \in EditValues :
          SetBudgetField(id, LaterMonth, "consumption", v)
    \/ SaveVersion("v", FALSE)
    \/ \E n \in ActiveVersionNumbers : HandleCompare(n, 0)

SpecCompare == Init /\ [][NextCompare]_vars

----------------------------------------------------------------------------
(* Persistence: AppProvider hands each new reducer state to                *)
(* useLocalStorage, which writes it to localStorage 300 ms after the last  *)
(* change.  The effects and the timer callback are tasks of their own, so  *)
(* each is a step that other steps may precede.                            *)

\* The reducer's state, the `state` of AppProvider.
AppState ==
    [schemaVersion |-> provider.migrated.schemaVersion,
     models        |-> models,
     activeModelId |-> activeModelId]

\* JSON.parse(JSON.stringify(state)) for an AppState: the value that the
\* text written by setItem stands for.
JsonCloneState(state) ==
    [p \in Keys(state) |->
        IF p = "models"
        THEN [i \in DOMAIN state.models |-> JsonCloneModel(state.models[i])]
        ELSE state[p]]

\* AppProvider's effect on [state]: setSavedState(state), after which
\* useLocalStorage renders with the new storedValue.
SaveEffect ==
    /\ provider.phase = "running"
    /\ provider.savedState # AppState
    /\ provider' = Put(provider, "savedState", AppState)
    /\ last' = [type |-> "SAVE_EFFECT"]
    /\ UNCHANGED <<models, activeModelId, now, nextModelId, nextServiceId, thrown,
                   session, exported, manager>>

\* useLocalStorage's two effects on [storedValue]: latestValueRef takes the
\* new value, the pending timer is cleared and a new one is set.
StorageEffect ==
    /\ provider.phase = "running"
    /\ provider.storage.latestValue # provider.savedState
    /\ provider' = Put(provider, "storage",
                       [latestValue |-> provider.savedState,
                        timer       |-> TRUE,
                        item        |-> provider.storage.item,
                        failed      |-> provider.storage.failed])
    /\ last' = [type |-> "STORAGE_EFFECT"]
    /\ UNCHANGED <<models, activeModelId, now, nextModelId, nextServiceId, thrown,
                   session, exported, manager>>

\* The timer's callback: setItem(key, JSON.stringify(latestValueRef.current)),
\* which either stores the text or throws (quota); the throw is swallowed.
TimerFires(ok) ==
    /\ provider.phase = "running"
    /\ provider.storage.timer
    /\ provider' = Put(provider, "storage",
                       [latestValue |-> provider.storage.latestValue,
                        timer       |-> FALSE,
                        item        |-> IF ok
                                        THEN <<JsonCloneState(provider.storage.latestValue)>>
                                        ELSE provider.storage.item,
                        failed      |-> provider.storage.failed \/ ~ok])
    /\ last' = [type |-> "SET_ITEM", ok |-> ok]
    /\ UNCHANGED <<models, activeModelId, now, nextModelId, nextServiceId, thrown,
                   session, exported, manager>>

TimerFire == \E ok \in BOOLEAN : TimerFires(ok)

\* SpecPersist: a few dispatches, with the effects and the timer running
\* between them.  React runs every effect it has scheduled and the browser
\* every timer that is set, hence the weak fairness of the three.
NextPersist ==
    \/ CreateModel("New")
    \/ SetBudgetConfig(ConfigInput)
    \/ SaveEffect
    \/ StorageEffect
    \/ TimerFire

SpecPersist ==
    /\ Init
    /\ [][NextPersist]_vars
    /\ WF_vars(SaveEffect)
    /\ WF_vars(StorageEffect)
    /\ WF_vars(TimerFire)


----------------------------------------------------------------------------
(* SpecRefine: the same set-field and clear-override operations given, one *)
(* after the other, to the store and to an edit session opened on the same *)
(* budget.                                                                 *)

RefineFields == {"consumption", "efficiency"}

\* SET_BUDGET_FIELD to the store and SET_FIELD_COMMIT to the session.
BothSetField(monthIndex, field, value) ==
    /\ session.open
    /\ now < MaxRefineTime
    /\ LET results == [i \in DOMAIN models |->
                          SetBudgetFieldData(models[i].data, session.serviceId,
                                             monthIndex, field, value)]
       IN IF UpdaterThrows(results)
          THEN /\ thrown' = TRUE
               /\ UNCHANGED models
          ELSE /\ models' = updateActiveModelData(models,
                                [i \in DOMAIN models |-> results[i].data])
               /\ Returns
    /\ session' = [session EXCEPT
                      !.edit = EditSetFieldCommit(session.edit, monthIndex, field, value)]
    /\ Step
    /\ last' = [type |-> "SET_FIELD", monthIndex |-> monthIndex, field |-> field,
                value |-> value, before |-> session.edit]
    /\ UNCHANGED <<activeModelId, nextModelId, nextServiceId, exported, manager, provider>>

\* CLEAR_OVERRIDE to the store and CLEAR_OVERRIDE to the session.
BothClearOverride(monthIndex, field) ==
    /\ session.open
    /\ now < MaxRefineTime
    /\ IF monthIndex = 0
       THEN /\ UNCHANGED models
            /\ Returns
       ELSE LET results == [i \in DOMAIN models |->
                               ClearOverrideData(models[i].data, session.serviceId,
                                                 monthIndex, field)]
            IN IF UpdaterThrows(results)
               THEN /\ thrown' = TRUE
                    /\ UNCHANGED models
               ELSE /\ models' = updateActiveModelData(models,
                                     [i \in DOMAIN models |-> results[i].data])
                    /\ Returns
    /\ session' = [session EXCEPT
                      !.edit = EditClearOverride(session.edit, monthIndex, field)]
    /\ Step
    /\ last' = [type |-> "CLEAR", monthIndex |-> monthIndex, field |-> field,
                before |-> session.edit]
    /\ UNCHANGED <<activeModelId, nextModelId, nextServiceId, exported, manager, provider>>

NextRefine ==
    \/ \E m \in EditMonths, f \in RefineFields, v \in EditValues : BothSetField(m, f, v)
    \/ \E m \in EditMonths, f \in RefineFields : BothClearOverride(m, f)

SpecRefine == InitDrag /\ [][NextRefine]_vars


----------------------------------------------------------------------------
(* Vocabulary of the properties.                                           *)

ModelOf(ms, id) == ms[FindIndex(ms, id)]

AllBudgets(data) == {data.budgetData[k] : k \in Keys(data.budgetData)}

\* A version without its number, which merges reassign.
Content(v) == [name |-> v.name, timestamp |-> v.timestamp, shared |-> v.shared,
               data |-> v.data]

RECURSIVE BagOfSeq(_)
BagOfSeq(s) == IF s = <<>> THEN EmptyBag
               ELSE BagOfSeq(SubSeq(s, 1, Len(s) - 1)) (+) SetToBag({s[Len(s)]})

ContentBag(vs) == BagOfSeq([i \in DOMAIN vs |-> Content(vs[i])])

----------------------------------------------------------------------------
(* C1.  Version numbers are dense and ascending, timestamps ascending.     *)

\* C1: in every model, versions[i].number = i + 1 for every index i (i here,
\* counting from 1), and the timestamps ascend in list order.
C1_DenseAscendingVersions ==
    \A k \in DOMAIN models :
        LET vs == models[k].versions
        IN \A i \in DOMAIN vs :
              /\ vs[i].number = i
              /\ i > 1 => vs[i - 1].timestamp <= vs[i].timestamp

----------------------------------------------------------------------------
(* C2.  appReducer is total.                                               *)

\* C2: no dispatch of an action of the action set (monthIndex in 0..11, any
\* model id, version number or service id) throws: every transition returns
\* a state.
C2_ReducerNeverThrows == thrown = FALSE

----------------------------------------------------------------------------
(* C3.  An action whose target does not exist returns the state unchanged. *)

\* The action dispatched by this step names a model id, a version number or a
\* service id that the state it is dispatched to does not hold.
TargetMissing ==
    \/ /\ last'.type \in {"RENAME_MODEL", "DELETE_MODEL", "SWITCH_MODEL", "DUPLICATE_MODEL"}
       /\ ~HasModel(last'.modelId)
    \/ /\ last'.type = "IMPORT_MODEL_MERGE"
       /\ ~HasModel(last'.imported.id)
    \/ /\ last'.type \in {"RESTORE_VERSION", "DELETE_VERSION", "TOGGLE_VERSION_SHARED"}
       /\ last'.versionNumber \notin ActiveVersionNumbers
    \/ /\ last'.type \in {"UPDATE_SERVICE", "DELETE_SERVICE", "SET_BUDGET_FIELD",
                          "CLEAR_OVERRIDE", "SET_SERVICE_BUDGET"}
       /\ last'.serviceId \notin ActiveServiceIds

\* C3: a dispatch whose target does not exist leaves models (their data,
\* versions and updatedAt) and activeModelId as they were.
C3_MissingTargetLeavesState ==
    [][TargetMissing => (models' = models /\ activeModelId' = activeModelId)]_vars

----------------------------------------------------------------------------
(* C4.  Services and budgets correspond.                                   *)

\* C4: in every model the ids of data.services are exactly the keys of
\* data.budgetData.
C4_ServicesMatchBudgets ==
    \A k \in DOMAIN models :
        ServiceIdsOf(models[k].data) = Keys(models[k].data.budgetData)

----------------------------------------------------------------------------
(* C5.  Month 0 is never overridden.                                       *)

Month0Clean(sb) ==
    0 \in Keys(sb) => \A f \in Keys(sb[0]) : sb[0][f].isOverridden = FALSE

SeqRange(s) == {s[i] : i \in DOMAIN s}

\* Every service budget the store holds: working data and saved versions.
StoreBudgets ==
    UNION {AllBudgets(models[k].data)
             \cup UNION {AllBudgets(models[k].versions[j].data) :
                            j \in DOMAIN models[k].versions} :
           k \in DOMAIN models}

\* Every service budget an open edit session holds.
SessionBudgets ==
    IF session.open
    THEN {session.edit.current} \cup SeqRange(session.edit.undoStack)
           \cup SeqRange(session.edit.redoStack) \cup SeqRange(session.edit.preChange)
    ELSE {}

\* C5: in every service budget of the store (working data and versions) and
\* of the edit session (current, undo and redo stacks, pending snapshot),
\* month 0's isOverridden is false for every field.
C5_Month0NeverOverridden ==
    \A sb \in StoreBudgets \cup SessionBudgets : Month0Clean(sb)

\* A bulk adjustment from month 0 has marked month 5 overridden and left
\* month 0 not overridden, in a session with an undo entry.
C5_Witness ==
    /\ session.open
    /\ last.type = "BULK_ADJUST"
    /\ last.fromMonth = 0
    /\ Len(session.edit.undoStack) > 0
    /\ session.edit.current[5]["consumption"].isOverridden
    /\ ~session.edit.current[0]["consumption"].isOverridden


----------------------------------------------------------------------------
(* C6.  A month-0 edit cascades into the months that are not overridden.   *)

\* The budget of service id in the active model's working data, before and
\* after the step.
BudgetBefore(id) == ModelOf(models, activeModelId).data.budgetData[id]
BudgetAfter(id) == ModelOf(models', activeModelId').data.budgetData[id]

\* This step dispatches SET_BUDGET_FIELD for month 0 of a listed service.
SetsMonth0 ==
    /\ last'.type = "SET_BUDGET_FIELD"
    /\ last'.monthIndex = 0
    /\ last'.serviceId \in ActiveServiceIds

\* C6: SET_BUDGET_FIELD for month 0 with value Y on a listed service sets the
\* field to {Y, false} in month 0 and in every month that was not overridden,
\* and leaves the value and the flag of every overridden month as they were.
C6_Month0SetCascades ==
    [][SetsMonth0 =>
         LET id == last'.serviceId
             f  == last'.field
         IN \A i \in Months :
               BudgetAfter(id)[i][f] =
                   IF i = 0 \/ ~BudgetBefore(id)[i][f].isOverridden
                   THEN Cell(last'.value, FALSE)
                   ELSE BudgetBefore(id)[i][f]]_vars

\* A month-0 edit to Y has reached month 1 and passed over month 5, which is
\* overridden with another value.
C6_Witness ==
    /\ last.type = "SET_BUDGET_FIELD"
    /\ last.monthIndex = 0
    /\ last.serviceId \in ActiveServiceIds
    /\ LET sb == ModelOf(models, activeModelId).data.budgetData[last.serviceId]
       IN /\ sb[0][last.field] = Cell(last.value, FALSE)
          /\ sb[1][last.field] = Cell(last.value, FALSE)
          /\ sb[5][last.field].isOverridden
          /\ sb[5][last.field].value # last.value

----------------------------------------------------------------------------
(* C7.  A cleared month inherits again.                                    *)

\* This step dispatches CLEAR_OVERRIDE for a month after month 0 of a listed
\* service.
ClearsLaterMonth ==
    /\ last'.type = "CLEAR_OVERRIDE"
    /\ last'.monthIndex > 0
    /\ last'.serviceId \in ActiveServiceIds

\* This step overrides month m of field f of service id through the store.
OverridesCell(id, m, f) ==
    /\ last'.type = "SET_BUDGET_FIELD"
    /\ last'.serviceId = id
    /\ last'.monthIndex = m
    /\ last'.field = f

\* C7: CLEAR_OVERRIDE for month m in 1..11 of a listed service sets the cell
\* to {month 0's value, false}; from then on the cell stays not overridden
\* until a SET_BUDGET_FIELD names month m (or the whole budget is replaced by
\* a session's result or a restored version), and meanwhile every month-0
\* SET_BUDGET_FIELD writes its value into the cell.
C7_ClearedMonthInheritsAgain ==
    [][/\ ClearsLaterMonth =>
            BudgetAfter(last'.serviceId)[last'.monthIndex][last'.field] =
                Cell(BudgetBefore(last'.serviceId)[0][last'.field].value, FALSE)
       /\ last'.type \notin {"SESSION_OK", "RESTORE_VERSION"} =>
            \A id \in ActiveServiceIds, m \in Months \ {0}, f \in Fields :
                ~BudgetBefore(id)[m][f].isOverridden =>
                    /\ BudgetAfter(id)[m][f].isOverridden => OverridesCell(id, m, f)
                    /\ OverridesCell(id, 0, f) =>
                           BudgetAfter(id)[m][f] = Cell(last'.value, FALSE)]_vars

\* In a seeded service, whose months after month 0 start overridden, month 5
\* has been cleared and a later month-0 edit has written its value into it,
\* while month 1 is still overridden.
C7_Witness ==
    /\ last.type = "SET_BUDGET_FIELD"
    /\ last.monthIndex = 0
    /\ last.serviceId \in ActiveServiceIds
    /\ LET sb == ModelOf(models, activeModelId).data.budgetData[last.serviceId]
       IN /\ sb[1][last.field].isOverridden
          /\ sb[5][last.field] = Cell(last.value, FALSE)


----------------------------------------------------------------------------
(* C8.  A saved version is an independent snapshot.                        *)

\* What a version holds apart from its number and its shared flag.
Snapshot(v) == [name |-> v.name, timestamp |-> v.timestamp, data |-> v.data]

SnapshotBag(vs) == BagOfSeq([i \in DOMAIN vs |-> Snapshot(vs[i])])

\* C8: SAVE_VERSION appends a version holding the working data of that
\* instant; and no action other than a replacing import changes the data of
\* a version while the version exists: every version a model holds before a
\* step it holds after it with the same data (after DELETE_VERSION, every
\* version left is one held before, with the same data).
C8_VersionsAreIndependentSnapshots ==
    [][\A i \in DOMAIN models, j \in DOMAIN models' :
          (models[i].id = models'[j].id /\ last'.type # "IMPORT_MODEL") =>
             /\ last'.type # "DELETE_VERSION" =>
                   SnapshotBag(models[i].versions) \sqsubseteq SnapshotBag(models'[j].versions)
             /\ last'.type = "DELETE_VERSION" =>
                   SnapshotBag(models'[j].versions) \sqsubseteq SnapshotBag(models[i].versions)
             /\ (last'.type = "SAVE_VERSION" /\ models[i].id = activeModelId) =>
                   /\ Len(models'[j].versions) = Len(models[i].versions) + 1
                   /\ SubSeq(models'[j].versions, 1, Len(models[i].versions))
                         = models[i].versions
                   /\ models'[j].versions[Len(models'[j].versions)].data = models[i].data
      ]_vars

\* The working data has been edited after a version was saved: the version
\* still holds the data saved, which the working data no longer equals.
C8_Witness ==
    /\ HasModel(activeModelId)
    /\ last.type \in {"ADD_SERVICE", "SET_BUDGET_CONFIG", "SET_SERVICE_BUDGET",
                      "SET_BUDGET_FIELD", "DELETE_SERVICE", "UPDATE_SERVICE"}
    /\ \E j \in DOMAIN ActiveModel.versions :
          /\ ActiveModel.versions[j].name = "v"
          /\ ActiveModel.versions[j].data # ActiveModel.data
          /\ ActiveModel.versions[j].timestamp < ActiveModel.updatedAt

----------------------------------------------------------------------------
(* C9.  RESTORE_VERSION replaces the working data only.                    *)

\* This step dispatches RESTORE_VERSION for a version the active model holds.
RestoresExisting ==
    /\ last'.type = "RESTORE_VERSION"
    /\ last'.versionNumber \in ActiveVersionNumbers

\* C9: after RESTORE_VERSION(n) for an existing n the active model's working
\* data equals the data of its version numbered n, its version list is as it
\* was, and every other model, the model list's order and activeModelId are
\* as they were.
C9_RestoreReplacesWorkingData ==
    [][RestoresExisting =>
         /\ activeModelId' = activeModelId
         /\ DOMAIN models' = DOMAIN models
         /\ \A i \in DOMAIN models :
               IF models[i].id = activeModelId
               THEN /\ models'[i].id = models[i].id
                    /\ models'[i].versions = models[i].versions
                    /\ \E j \in DOMAIN models[i].versions :
                          /\ models[i].versions[j].number = last'.versionNumber
                          /\ models'[i].data = models[i].versions[j].data
               ELSE models'[i] = models[i]]_vars

\* A restore has brought back the data of version 1 over edited working
\* data, in a state with two models and two versions.
C9_Witness ==
    /\ last.type = "RESTORE_VERSION"
    /\ last.versionNumber = 1
    /\ Len(models) > 1
    /\ HasModel(activeModelId)
    /\ Len(ActiveModel.versions) > 1
    /\ ActiveModel.data = ActiveModel.versions[1].data
    /\ ActiveModel.updatedAt > ActiveModel.versions[1].timestamp + 1

----------------------------------------------------------------------------
(* C10.  IMPORT_MODEL_MERGE de-duplicates by timestamp.                    *)

\* This step dispatches IMPORT_MODEL_MERGE for a model the store holds.
MergesIntoExisting ==
    /\ last'.type = "IMPORT_MODEL_MERGE"
    /\ HasModel(last'.imported.id)

\* The imported versions whose timestamp no version of vs has.
NovelVersions(vs, imported) ==
    SelectSeq(imported, LAMBDA v : \A i \in DOMAIN vs : vs[i].timestamp # v.timestamp)

\* C10: after IMPORT_MODEL_MERGE the model's version list holds every local
\* version once and one entry for each imported version whose timestamp no
\* local version had, and nothing else (numbers apart).
C10_MergeDeduplicatesByTimestamp ==
    [][MergesIntoExisting =>
         LET id    == last'.imported.id
             local == ModelOf(models, id).versions
         IN ContentBag(ModelOf(models', id).versions)
               = ContentBag(local) (+) ContentBag(NovelVersions(local, last'.imported.versions))
      ]_vars

\* A merge has met a local version and an imported one with the same
\* timestamp, kept the local one only, and added an imported version with
\* another timestamp.
C10_Witness ==
    /\ last.type = "IMPORT_MODEL_MERGE"
    /\ HasModel(last.imported.id)
    /\ LET vs == ModelOf(models, last.imported.id).versions
       IN \E i \in DOMAIN vs, k \in DOMAIN last.imported.versions :
             /\ vs[i].name = "v"
             /\ last.imported.versions[k].timestamp = vs[i].timestamp
             /\ \A j \in DOMAIN vs : vs[j].timestamp = vs[i].timestamp => j = i
             /\ \E j \in DOMAIN vs : vs[j].name = "imp"


----------------------------------------------------------------------------
(* C11.  IMPORT_MODEL_MERGE changes the target's version list only.        *)

\* C11: IMPORT_MODEL_MERGE into a model the store holds keeps that model's
\* id, name, creation time and working data, keeps every local version's
\* name, timestamp, shared flag and data (the list only gains entries; the
\* numbers may change), keeps activeModelId, and leaves every other model and
\* the order of the model list as they were.
C11_MergeKeepsLocalContent ==
    [][MergesIntoExisting =>
         /\ activeModelId' = activeModelId
         /\ DOMAIN models' = DOMAIN models
         /\ \A i \in DOMAIN models :
               IF models[i].id = last'.imported.id
               THEN /\ models'[i].id = models[i].id
                    /\ models'[i].name = models[i].name
                    /\ models'[i].createdAt = models[i].createdAt
                    /\ models'[i].data = models[i].data
                    /\ Len(models'[i].versions) >= Len(models[i].versions)
                    /\ ContentBag(models[i].versions)
                          \sqsubseteq ContentBag(models'[i].versions)
               ELSE models'[i] = models[i]]_vars

\* A merge into one of two models has added an imported version next to a
\* local one, and the target's name and working data are not the imported
\* model's.
C11_Witness ==
    /\ last.type = "IMPORT_MODEL_MERGE"
    /\ HasModel(last.imported.id)
    /\ Len(models) > 1
    /\ LET target == ModelOf(models, last.imported.id)
       IN /\ target.data # last.imported.data
          /\ target.name # last.imported.name
          /\ \E i, j \in DOMAIN target.versions :
                target.versions[i].name = "v" /\ target.versions[j].name = "imp"


----------------------------------------------------------------------------
(* C12.  Export followed by import is a round trip on shared content.      *)

SharedVersions(vs) == SelectSeq(vs, LAMBDA v : v.shared)

\* This step is handleImport dispatching IMPORT_MODEL, with a model whose id
\* the store does not hold, for an archive in flight that export e saved.
ImportsExported(e) ==
    /\ last'.type = "IMPORT_MODEL"
    /\ last'.handler = "handleImport"
    /\ ~HasModel(last'.imported.id)
    /\ \E k \in DOMAIN manager.inFlight :
          /\ manager.inFlight[k].file = e.file
          /\ manager'.inFlight = RemoveAt(manager.inFlight, k)

\* C12: when an archive that exportModel saved for a model is imported into
\* a store that does not hold the model's id, the store gains, and makes
\* active, a model with that id whose working data equals the exported
\* model's and whose versions are, with equal name, timestamp and data,
\* exactly the exported model's shared versions, all marked shared.
C12_ExportImportRoundTrip ==
    [][\A e \in exported :
          ImportsExported(e) =>
             /\ activeModelId' = e.origin.id
             /\ Len(models') = Len(models) + 1
             /\ LET m == models'[Len(models')]
                IN /\ m.id = e.origin.id
                   /\ m.data = e.origin.data
                   /\ SnapshotBag(m.versions) = SnapshotBag(SharedVersions(e.origin.versions))
                   /\ \A i \in DOMAIN m.versions : m.versions[i].shared]_vars

\* A model exported with a shared and an unshared version has been deleted
\* and imported again: the store holds it with the shared version only.
C12_Witness ==
    /\ last.type = "IMPORT_MODEL"
    /\ last.handler = "handleImport"
    /\ HasModel(last.imported.id)
    /\ \E e \in exported :
          /\ e.origin.id = last.imported.id
          /\ \E i, j \in DOMAIN e.origin.versions :
                e.origin.versions[i].shared /\ ~e.origin.versions[j].shared
          /\ ModelOf(models, e.origin.id).data = e.origin.data
          /\ Len(ModelOf(models, e.origin.id).versions)
                = Len(SharedVersions(e.origin.versions))


----------------------------------------------------------------------------
(* C13.  The exported document does not depend on unshared versions.       *)

\* The model document an archive saved by exportModel holds.
DocumentOf(e) == e.file.doc.value.fields

\* C13: every exported document holds the working data of the model
\* exported, whatever its sharing flags, and as versions exactly the model's
\* versions with shared = true; so two exported models with equal working
\* data and equal shared versions, however their unshared versions differ,
\* have documents with the same working data and the same version list.
C13_ExportIgnoresUnsharedVersions ==
    /\ \A e \in exported :
          /\ DocumentOf(e).data = e.origin.data
          /\ DocumentOf(e).versions = SharedVersions(e.origin.versions)
          /\ \A i \in DOMAIN DocumentOf(e).versions : DocumentOf(e).versions[i].shared
    /\ \A e1, e2 \in exported :
          (/\ e1.origin.data = e2.origin.data
           /\ SharedVersions(e1.origin.versions) = SharedVersions(e2.origin.versions)) =>
             /\ DocumentOf(e1).data = DocumentOf(e2).data
             /\ DocumentOf(e1).versions = DocumentOf(e2).versions

\* Two exports of a model with the same shared version, one of them made
\* after an unshared version was saved: their documents hold the same data
\* and the same one version.
C13_Witness ==
    \E e1, e2 \in exported :
        /\ e1.origin.versions # e2.origin.versions
        /\ e1.origin.data = e2.origin.data
        /\ \E i \in DOMAIN e2.origin.versions : ~e2.origin.versions[i].shared
        /\ SharedVersions(e1.origin.versions) = SharedVersions(e2.origin.versions)
        /\ Len(DocumentOf(e1).versions) = 1
        /\ DocumentOf(e1).versions = DocumentOf(e2).versions


----------------------------------------------------------------------------
(* C14.  A failed import changes nothing.                                  *)

IsObject(file) == file.doc.parses /\ file.doc.value.type = "object"

LegacyFlatShape(file) ==
    file.entry = "legacy" /\ IsObject(file) /\ "services" \in Keys(file.doc.value.fields)

WrappedModelShape(file) ==
    /\ IsObject(file)
    /\ {"id", "data"} \subseteq Keys(file.doc.value.fields)
    /\ "services" \in Keys(file.doc.value.fields.data)

\* The archive has no data entry, or the entry does not parse, or the
\* document has neither shape.
Unimportable(file) ==
    \/ file.entry = "none"
    \/ ~file.doc.parses
    \/ ~(LegacyFlatShape(file) \/ WrappedModelShape(file))

\* This step settles call k of the imports in flight.
Settles(k) ==
    /\ k \in DOMAIN manager.inFlight
    /\ last'.type \in {"IMPORT_REJECTED", "IMPORT_CONFLICT", "IMPORT_MODEL"}
    /\ manager'.inFlight = RemoveAt(manager.inFlight, k)

\* C14: when the import of an archive with no data entry, an entry that does
\* not parse or a document of neither shape settles, it is rejected with a
\* message, which ModelManager shows; nothing is dispatched: models,
\* activeModelId, the id source and the pending conflict are as before.
C14_FailedImportChangesNothing ==
    [][\A k \in DOMAIN manager.inFlight :
          (Settles(k) /\ Unimportable(manager.inFlight[k].file)) =>
             /\ last'.type = "IMPORT_REJECTED"
             /\ manager'.importError = <<last'.message>>
             /\ last'.message # ""
             /\ models' = models
             /\ activeModelId' = activeModelId
             /\ nextModelId' = nextModelId
             /\ thrown' = thrown
             /\ manager'.pendingConflict = manager.pendingConflict]_vars

\* An import has been rejected as not recognised, in a store that an earlier
\* import had added a model to.
C14_Witness ==
    /\ last.type = "IMPORT_REJECTED"
    /\ manager.importError = <<"Invalid data format">>
    /\ Len(models) > 1


----------------------------------------------------------------------------
(* C15.  An id conflict is never resolved without the caller's choice.     *)

\* This step applies an imported model to a local model with the same id.
AppliesToLocalModel ==
    /\ last'.type \in {"IMPORT_MODEL", "IMPORT_MODEL_MERGE"}
    /\ HasModel(last'.imported.id)

\* C15: a step that replaces a local model by an imported model with its id,
\* or merges into it, is the replace or the merge picked in the conflict
\* dialog shown for that imported model; and cancelling the dialog leaves
\* models and activeModelId as they were.
C15_ConflictNeedsResolution ==
    [][/\ AppliesToLocalModel =>
            /\ manager.pendingConflict # <<>>
            /\ manager.pendingConflict[1].imported = last'.imported
            /\ last'.handler \in {"handleConflictReplace", "handleConflictMerge"}
       /\ last'.type = "CONFLICT_CANCEL" =>
            (models' = models /\ activeModelId' = activeModelId)]_vars



\* C16: startup migration always ends at the current schema: for every
\* persisted document handed to the provider (a flat state from before schema
\* versions, a wrapped state below schema 3 with or without a models list, a
\* state already at schema 3), the initial state given to the reducer has
\* schemaVersion 3 and a models list.
C16_StartupEndsAtCurrentSchema ==
    provider.phase # "loading" =>
        /\ "schemaVersion" \in Keys(provider.migrated)
        /\ provider.migrated.schemaVersion = SCHEMA_VERSION
        /\ "models" \in Keys(provider.migrated)


\* C17: in every state reachable by reducer actions from the default state
\* (CREATE_MODEL, DELETE_MODEL, SWITCH_MODEL with any id, DUPLICATE_MODEL,
\* IMPORT_MODEL, IMPORT_MODEL_MERGE), activeModelId is null exactly when the
\* models list is empty, and otherwise it is the id of a model in the list.
C17_ActiveModelIsInList ==
    /\ activeModelId = NoModel <=> models = <<>>
    /\ models # <<>> => activeModelId \in ModelIdsOf(models)


\* The service of the cost scenario: unit cost 10, not discount eligible,
\* default efficiency 100, default overhead 0.
ScenarioService(s) ==
    /\ s.unitCost = 10
    /\ ~s.discountEligible
    /\ s.defaultEfficiency = 100
    /\ s.defaultOverhead = 0

\* The budget of the scenario's service whose consumption is c[m] in month m,
\* overridden in the months of over.
ScenarioBudget(c, over) ==
    [m \in Months |->
        [consumption |-> Cell(c[m], m \in over), efficiency |-> Cell(100, FALSE),
         overhead |-> Cell(0, FALSE), discount |-> Cell(0, FALSE)]]

Flat(v) == [m \in Months |-> v]
Peaked == [m \in Months |-> IF m = 3 THEN 200 ELSE 50]

\* data lists the scenario's service under id with the budget sb.
ScenarioData(data, id, sb) ==
    /\ id \in ServiceIdsOf(data)
    /\ id \in Keys(data.budgetData)
    /\ ScenarioService(FindService(data, id))
    /\ data.budgetData[id] = sb

\* In data, month m of service id costs costs[m], and the year costs total.
CostsAre(data, id, costs, total) ==
    /\ \A m \in Months : MonthCost(data, id, m) = Whole(costs[m])
    /\ computeServiceTotal(data, id) = Whole(total)

DataBefore == ModelOf(models, activeModelId).data
DataAfter == ModelOf(models', activeModelId').data

\* This step dispatches SET_BUDGET_FIELD of the consumption of month m to v
\* for the service id, whose budget before the step is sb.
SetsConsumption(id, sb, m, v) ==
    /\ HasModel(activeModelId)
    /\ ScenarioData(DataBefore, id, sb)
    /\ last'.type = "SET_BUDGET_FIELD"
    /\ last'.serviceId = id
    /\ last'.monthIndex = m
    /\ last'.field = "consumption"
    /\ last'.value = v

\* C18: the cost scenario end to end.  A service with unit cost 10, not
\* discount eligible, default efficiency 100 and default overhead 0, added
\* without a seed, costs 0 in each of the 12 months; after SET_BUDGET_FIELD of
\* month 0 consumption to 50 every month costs 500 and the year 6000; after
\* SET_BUDGET_FIELD of month 3 consumption to 200 month 3 costs 2000, the
\* other months 500 and the year 7500; a version saved shared at that point,
\* exported and imported into a fresh store, has data whose year costs 7500.
C18_CostScenario ==
    [][/\ (last'.type = "ADD_SERVICE" /\ last'.seed = <<>> /\ HasModel(activeModelId)
             /\ ScenarioService(FindService(DataAfter, last'.serviceId)))
          => CostsAre(DataAfter, last'.serviceId, Flat(0), 0)
       /\ \A id \in ActiveServiceIds :
             /\ SetsConsumption(id, ScenarioBudget(Flat(0), {}), 0, 50)
                   => CostsAre(DataAfter, id, Flat(500), 6000)
             /\ SetsConsumption(id, ScenarioBudget(Flat(50), {}), 3, 200)
                   => CostsAre(DataAfter, id, [m \in Months |-> IF m = 3 THEN 2000 ELSE 500],
                               7500)
       /\ \A e \in exported :
             (ImportsExported(e) /\ provider.store > 1) =>
                \A i \in DOMAIN e.origin.versions, id \in ServiceIdsOf(e.origin.data) :
                   LET v == e.origin.versions[i]
                   IN (v.shared /\ ScenarioData(v.data, id, ScenarioBudget(Peaked, {3})))
                      => \E j \in DOMAIN ModelOf(models', e.origin.id).versions :
                            LET w == ModelOf(models', e.origin.id).versions[j]
                            IN /\ w.timestamp = v.timestamp
                               /\ computeServiceTotal(w.data, id) = Whole(7500)]_vars

\* In a fresh store, the archive of the scenario's model has been imported:
\* the model holds a version whose data is the scenario's after both edits,
\* and whose year costs 7500.
C18_Witness ==
    /\ last.type = "IMPORT_MODEL"
    /\ last.handler = "handleImport"
    /\ provider.store > 1
    /\ HasModel(last.imported.id)
    /\ \E e \in exported :
          /\ e.origin.id = last.imported.id
          /\ ScenarioData(e.origin.data, 1, ScenarioBudget(Peaked, {3}))
    /\ LET m == ModelOf(models, last.imported.id)
       IN \E j \in DOMAIN m.versions :
             /\ ScenarioData(m.versions[j].data, 1, ScenarioBudget(Peaked, {3}))
             /\ CostsAre(m.versions[j].data, 1,
                         [k \in Months |-> IF k = 3 THEN 2000 ELSE 500], 7500)


\* This step dispatches ADD_SERVICE while a model is active.
AddsService == last'.type = "ADD_SERVICE" /\ HasModel(activeModelId)

\* The consumption ADD_SERVICE seeds month i with: base + growth * i, kept at
\* 0 or above when clamped.
SeededConsumption(seed, i, clamped) ==
    LET ramp == seed[1].consumption + seed[1].monthlyGrowth * i
    IN IF clamped THEN Max(ramp, 0) ELSE ramp

\* What the step's ADD_SERVICE created: a service with an id no service and
\* no budget of the model had, and a budget of 12 months whose efficiency and
\* overhead are the service's defaults and whose discount is 0, none
\* overridden; consumption 0 and unoverridden without a seed, the seed's ramp
\* with month 0 unoverridden and months 1..11 overridden with one.
AddedServiceBudget(clamped) ==
    LET id      == last'.serviceId
        seed    == last'.seed
        service == FindService(DataAfter, id)
        sb      == DataAfter.budgetData[id]
    IN /\ id \notin ServiceIdsOf(DataBefore)
       /\ id \notin Keys(DataBefore.budgetData)
       /\ id \in ServiceIdsOf(DataAfter)
       /\ id \in Keys(DataAfter.budgetData)
       /\ Keys(sb) = Months
       /\ \A i \in Months :
             /\ sb[i].efficiency = Cell(service.defaultEfficiency, FALSE)
             /\ sb[i].overhead = Cell(service.defaultOverhead, FALSE)
             /\ sb[i].discount = Cell(0, FALSE)
             /\ sb[i].consumption =
                   IF seed = <<>> THEN Cell(0, FALSE)
                   ELSE Cell(SeededConsumption(seed, i, clamped), i > 0)

\* C19 (as the code has it): ADD_SERVICE creates a service with a fresh id
\* and a 12-month budget in which efficiency and overhead equal the service
\* defaults and discount is 0, all unoverridden; without a seed consumption is
\* 0 in every month and unoverridden; with a seed (base, growth), for every
\* month i in 0..11 consumption[i] is base + growth*i where that is 0 or more
\* and 0 where it is negative, month 0 is unoverridden and every month 1..11
\* is overridden.
C19_AddServiceSeedsClampedRamp == [][AddsService => AddedServiceBudget(TRUE)]_vars

\* C19 (as stated): the same with consumption[i] == base + growth*i for
\* every month i in 0..11.
C19_AddServiceSeedsRamp == [][AddsService => AddedServiceBudget(FALSE)]_vars

\* A service was added with a falling ramp: month 0 holds the base
\* unoverridden, month 1 the ramp overridden, and month 3, where the ramp is
\* negative, 0 overridden.
C19_Witness ==
    /\ last.type = "ADD_SERVICE"
    /\ HasModel(activeModelId)
    /\ last.seed # <<>>
    /\ last.seed[1].monthlyGrowth < 0
    /\ LET sb == ModelOf(models, activeModelId).data.budgetData[last.serviceId]
       IN /\ sb[0].consumption = Cell(last.seed[1].consumption, FALSE)
          /\ sb[1].consumption = Cell(5, TRUE)
          /\ sb[3].consumption = Cell(0, TRUE)
          /\ sb[0].efficiency = Cell(80, FALSE)


\* The COMMIT dispatched last ended a drag gesture that began with no
\* preChange pending.
CommitsGesture ==
    /\ last.type = "COMMIT"
    /\ last.gesture # <<>>
    /\ last.gesture[1].start.preChange = <<>>

\* C20: a drag gesture is one undo step.  In an edit session with no pending
\* preChange, any number n >= 1 of SET_VALUE actions followed by one COMMIT
\* increases undoStack by exactly one entry, that entry equals the session's
\* current budget as it was before the first SET_VALUE, and redoStack and
\* preChange are empty afterwards.
C20_DragIsOneUndoStep ==
    CommitsGesture =>
        /\ session.edit.undoStack = Append(last.gesture[1].start.undoStack,
                                           last.gesture[1].start.current)
        /\ session.edit.redoStack = <<>>
        /\ session.edit.preChange = <<>>

\* A gesture of two or more SET_VALUE actions that changed the budget was
\* committed in a session that had a redo step.
C20_Witness ==
    /\ CommitsGesture
    /\ last.gesture[1].n >= 2
    /\ last.gesture[1].start.redoStack # <<>>
    /\ session.edit.current # last.gesture[1].start.current
    /\ Len(session.edit.undoStack) = Len(last.gesture[1].start.undoStack) + 1


\* The action labelled l was a committed edit made with no preChange pending:
\* SET_FIELD_COMMIT, CLEAR_OVERRIDE on a month in 1..11, BULK_ADJUST, or the
\* COMMIT of a drag gesture.
CommittedEdit(l) ==
    \/ /\ l.type \in {"SET_FIELD_COMMIT", "BULK_ADJUST"}
       /\ l.before.preChange = <<>>
    \/ /\ l.type = "SESSION_CLEAR_OVERRIDE"
       /\ l.monthIndex \in 1 .. 11
       /\ l.before.preChange = <<>>
    \/ /\ l.type = "COMMIT"
       /\ l.gesture # <<>>
       /\ l.gesture[1].start.preChange = <<>>

\* The session's budget before the committed edit labelled l.
BudgetBeforeEdit(l) ==
    IF l.type = "COMMIT" THEN l.gesture[1].start.current ELSE l.before.current

\* C21: UNDO and REDO are inverse stack swaps.  In an edit session with no
\* pending preChange, after any single committed edit (SET_FIELD_COMMIT,
\* CLEAR_OVERRIDE on a month in 1..11, BULK_ADJUST, or SET_VALUE followed by
\* COMMIT) an UNDO makes current equal to the budget before that edit, and a
\* following REDO makes current equal to the budget after it, with undoStack
\* and redoStack as they were before the UNDO; UNDO with an empty undoStack
\* and REDO with an empty redoStack leave the session state unchanged.
C21_UndoRedoAreInverse ==
    [][/\ (last'.type = "UNDO" /\ CommittedEdit(last))
             => session'.edit.current = BudgetBeforeEdit(last)
       /\ (last'.type = "REDO" /\ last.type = "UNDO" /\ CommittedEdit(last.prev))
             => /\ session'.edit.current = last.before.current
                /\ session'.edit.undoStack = last.before.undoStack
                /\ session'.edit.redoStack = last.before.redoStack
       /\ (last'.type = "UNDO" /\ session.edit.undoStack = <<>>)
             => session'.edit = session.edit
       /\ (last'.type = "REDO" /\ session.edit.redoStack = <<>>)
             => session'.edit = session.edit]_vars

\* A bulk adjustment that changed the budget was undone and redone: current
\* is the adjusted budget again, and differs from the budget before it.
C21_Witness ==
    /\ last.type = "REDO"
    /\ last.prev.type = "UNDO"
    /\ last.prev.prev.type = "BULK_ADJUST"
    /\ CommittedEdit(last.prev.prev)
    /\ session.edit.current = last.prev.before.current
    /\ session.edit.current # BudgetBeforeEdit(last.prev.prev)
    /\ last.before.current = BudgetBeforeEdit(last.prev.prev)
    /\ session.edit.undoStack # <<>>


\* round(max(floor, value * multiplier^k)) for a whole floor and the
\* multiplier num / den.
AdjustedValue(value, multiplier, floor, k) ==
    IF value * Pow(multiplier.num, k) >= floor * Pow(multiplier.den, k)
    THEN RoundDiv(value * Pow(multiplier.num, k), Pow(multiplier.den, k))
    ELSE floor

\* C22: BULK_ADJUST(field, fromMonth, multiplier, floor, compound) sets, for
\* every month m in fromMonth..11, the field's value to
\* round(max(floor, value * multiplier^k)) with k = 1 when compound is false
\* and k = m - fromMonth + 1 when compound is true, marks every touched month
\* m > 0 overridden, leaves months below fromMonth and the other three fields
\* unchanged, and pushes exactly one undo entry equal to the budget before the
\* adjustment.
C22_BulkAdjust ==
    [][last'.type = "BULK_ADJUST" =>
         /\ \A m \in Months, f \in Fields :
               session'.edit.current[m][f] =
                  IF f = last'.field /\ m >= last'.fromMonth
                  THEN Cell(AdjustedValue(session.edit.current[m][f].value,
                                          last'.multiplier, last'.min,
                                          IF last'.compound
                                          THEN m - last'.fromMonth + 1 ELSE 1),
                            m > 0)
                  ELSE session.edit.current[m][f]
         /\ session'.edit.undoStack = Append(session.edit.undoStack, session.edit.current)]_vars

\* Efficiency was halved month on month from month 5 with floor 1: month 4
\* is untouched, month 5 holds 50, month 7 the rounded 13, month 11 the floor,
\* each touched month overridden, and consumption is as it was.
C22_Witness ==
    /\ last.type = "BULK_ADJUST"
    /\ last.field = "efficiency"
    /\ last.compound
    /\ last.fromMonth = 5
    /\ last.before.current[5].efficiency = Cell(100, FALSE)
    /\ session.edit.current[4].efficiency = Cell(100, FALSE)
    /\ session.edit.current[5].efficiency = Cell(50, TRUE)
    /\ session.edit.current[7].efficiency = Cell(13, TRUE)
    /\ session.edit.current[11].efficiency = Cell(1, TRUE)
    /\ \A m \in Months : session.edit.current[m].consumption = last.before.current[m].consumption
    /\ Len(session.edit.undoStack) = Len(last.before.undoStack) + 1


SessionActionTypes ==
    {"SET_VALUE", "COMMIT", "SET_FIELD_COMMIT", "SESSION_CLEAR_OVERRIDE", "BULK_ADJUST",
     "UNDO", "REDO"}

\* Every version of every model, by model.
AllVersions(ms) == [i \in DOMAIN ms |-> ms[i].versions]

\* C23: an edit session is isolated from the store until accepted.  No
\* session action (SET_VALUE, COMMIT, SET_FIELD_COMMIT, CLEAR_OVERRIDE,
\* BULK_ADJUST, UNDO, REDO) changes the AppState; Cancel leaves the AppState
\* equal to what it was when the session opened; OK replaces exactly the
\* edited service's ServiceBudget in the active model with the session's
\* current budget, leaves every other service's budget and every version
\* unchanged, and carries none of the undo/redo stacks into the store.
C23_SessionIsolated ==
    [][/\ last'.type \in SessionActionTypes
             => (models' = models /\ activeModelId' = activeModelId)
       /\ session.open
             => (models = session.opened.models
                   /\ activeModelId = session.opened.activeModelId)
       /\ last'.type = "SESSION_CANCEL"
             => (models' = session.opened.models
                   /\ activeModelId' = session.opened.activeModelId)
       /\ last'.type = "SESSION_OK"
             => /\ activeModelId' = activeModelId
                /\ Len(models') = Len(models)
                /\ AllVersions(models') = AllVersions(models)
                /\ \A i \in DOMAIN models :
                      /\ Keys(models'[i]) = Keys(models[i])
                      /\ Keys(models'[i].data) = Keys(models[i].data)
                      /\ models'[i].data.budgetData =
                            IF models[i].id = activeModelId
                            THEN Put(models[i].data.budgetData, session.serviceId,
                                     session.edit.current)
                            ELSE models[i].data.budgetData]_vars

\* A session with undo history on one of two services was accepted: that
\* service's budget in the store is the session's and differs from the one
\* the session opened on, the other service's is as it was.
C23_Witness ==
    /\ last.type = "SESSION_OK"
    /\ last.session.edit.undoStack # <<>>
    /\ LET was == ModelOf(last.session.opened.models, activeModelId).data.budgetData
           is  == ModelOf(models, activeModelId).data.budgetData
       IN /\ Cardinality(Keys(was)) >= 2
          /\ Keys(is) = Keys(was)
          /\ is[last.serviceId] = last.session.edit.current
          /\ is[last.serviceId] # was[last.serviceId]
          /\ \A k \in Keys(was) \ {last.serviceId} : is[k] = was[k]


RECURSIVE YearCosts(_, _)
\* The sum, over the services of data with an id in ids, of the costs of
\* their 12 months.
YearCosts(data, ids) ==
    IF ids = {} THEN Whole(0)
    ELSE LET id == CHOOSE x \in ids : TRUE
         IN Plus(YearCosts(data, ids \ {id}),
                 IF id \in Keys(data.budgetData) THEN SumCosts(data, id, 0) ELSE Whole(0))

Compared == last.type = "COMPARE"

\* The entries of the comparison shown last.
Diffs == {last.result.services[i] : i \in DOMAIN last.result.services}

\* C24: compareModelData classifies by presence and totals by dataset.  A
\* service id present only in newer has status added with oldTotalCost 0, one
\* present only in older has status removed with newTotalCost 0, and
\* oldGrandTotal (newGrandTotal) equals the sum of the 12-month cost totals of
\* every service of older (newer), so a removed service's old cost is part of
\* oldGrandTotal and no part of newGrandTotal.
C24_CompareByPresence ==
    Compared =>
       /\ {d.serviceId : d \in Diffs}
             = ServiceIdsOf(last.older) \cup ServiceIdsOf(last.newer)
       /\ \A d \in Diffs :
             /\ d.serviceId \notin ServiceIdsOf(last.older)
                   => (d.status = "added" /\ d.oldTotalCost = Whole(0))
             /\ d.serviceId \notin ServiceIdsOf(last.newer)
                   => (d.status = "removed" /\ d.newTotalCost = Whole(0))
       /\ last.result.oldGrandTotal = YearCosts(last.older, ServiceIdsOf(last.older))
       /\ last.result.newGrandTotal = YearCosts(last.newer, ServiceIdsOf(last.newer))

\* A version with a service that costs something was compared with working
\* data from which that service is gone and to which another was added.
C24_Witness ==
    /\ Compared
    /\ \E d \in Diffs :
          /\ d.status = "removed"
          /\ d.oldTotalCost.num > 0
          /\ last.result.oldGrandTotal = d.oldTotalCost
    /\ \E d \in Diffs :
          /\ d.status = "added"
          /\ d.newTotalCost.num > 0
          /\ last.result.newGrandTotal = d.newTotalCost


\* C29: in the result of compareModelData, every service with status
\* unchanged has oldTotalCost equal to newTotalCost, for all pairs of
\* datasets, including ones in which the service's unitCost or
\* discountEligible differs between older and newer, or in which one side
\* lacks the service's budget entry.
C29_UnchangedCostsEqual ==
    Compared => \A d \in Diffs : d.status = "unchanged" => d.oldTotalCost = d.newTotalCost


\* A step of the timer's callback that stored the text wrote the reducer's
\* state of that instant.
WriteIsLatest ==
    (last'.type = "SET_ITEM" /\ last'.ok) => provider'.storage.item = <<AppState>>'

\* No write having failed, localStorage ends up holding the reducer's final
\* state for good.
EventuallyPersisted ==
    ([] ~provider.storage.failed) => <>[](provider.storage.item = <<AppState>>)

\* C25: every write that reaches localStorage writes the most recent
\* in-memory AppState at the time of the write, never an older one; and if
\* mutations stop, the process keeps running and the write does not fail,
\* localStorage eventually holds the final in-memory AppState.
C25_LatestStateWins ==
    /\ [][WriteIsLatest]_vars
    /\ EventuallyPersisted


\* The budget the store would hold for the session's service if the session
\* were accepted now: handleOK's SET_SERVICE_BUDGET on the data the session
\* was opened on.
AcceptedBudget ==
    LET opened == ModelOf(session.opened.models, session.opened.activeModelId)
    IN SetServiceBudgetData(opened.data, session.serviceId,
                            session.edit.current).budgetData[session.serviceId]

\* The budget the store holds for the session's service.
StoredBudget == ActiveModel.data.budgetData[session.serviceId]

\* C26: whatever sequence of set-field and clear-override operations is run
\* in an edit session (SET_FIELD_COMMIT, CLEAR_OVERRIDE) and accepted, the
\* ServiceBudget obtained, values and isOverridden flags, is the one the
\* store reaches when the same sequence is dispatched to it
\* (SET_BUDGET_FIELD, CLEAR_OVERRIDE).
C26_SessionRefinesStore ==
    session.open => (~thrown /\ AcceptedBudget = StoredBudget)

\* Month 0 was set, on both sides, after a later month had been overridden
\* and another cleared: the budget has a cell that kept its own value and
\* cells that took month 0's.
C26_Witness ==
    /\ session.open
    /\ last.type = "SET_FIELD"
    /\ last.monthIndex = 0
    /\ Len(session.edit.undoStack) >= 3
    /\ \E l \in Months \ {0} :
          /\ StoredBudget[l][last.field].isOverridden
          /\ StoredBudget[l][last.field].value # last.value
    /\ \E l \in Months \ {0} :
          /\ ~StoredBudget[l][last.field].isOverridden
          /\ last.before.current[l][last.field].value # last.value
    /\ \E i \in DOMAIN session.edit.undoStack :
          \E l \in Months \ {0} :
              /\ session.edit.undoStack[i][l][last.field].isOverridden
              /\ ~StoredBudget[l][last.field].isOverridden


----------------------------------------------------------------------------
(* C27.  A cell that is not overridden holds month 0's value.              *)

\* In budget sb every cell of months 1..11 that is not overridden has the
\* value of month 0 of its field.
Inherits(sb) ==
    \A i \in Months \ {0}, f \in Fields :
        ~sb[i][f].isOverridden => sb[i][f].value = sb[0][f].value

\* C27: in every state reached through ADD_SERVICE (with or without seed),
\* SET_BUDGET_FIELD, CLEAR_OVERRIDE, edit sessions that are accepted,
\* SAVE_VERSION and RESTORE_VERSION, for every service, field and month i in
\* 1..11, a cell that is not overridden has month 0's value of that field.
C27_UnoverriddenCellsInherit ==
    \A sb \in StoreBudgets : Inherits(sb)

\* An accepted session has left in the store a budget whose month 0 no longer
\* has the value the service was added with, with a month that follows it and
\* an overridden month that holds another value.
C27_Witness ==
    /\ last.type = "SESSION_OK"
    /\ LET sb == ActiveModel.data.budgetData[last.serviceId]
           f  == "consumption"
       IN /\ sb[0][f].value \notin {0, 10}
          /\ \E i \in Months \ {0} : ~sb[i][f].isOverridden
          /\ \E i \in Months \ {0} :
                sb[i][f].isOverridden /\ sb[i][f].value # sb[0][f].value


----------------------------------------------------------------------------
(* C28.  Undoing everything returns to the budget the session opened with. *)

\* UNDO dispatched until undoStack is empty.
RECURSIVE UndoAll(_)
UndoAll(state) ==
    IF state.undoStack = <<>> THEN state ELSE UndoAll(EditUndo(state))

\* The budget the session was opened with.
OpenedBudget ==
    ModelOf(session.opened.models,
            session.opened.activeModelId).data.budgetData[session.serviceId]

\* C28: after any sequence of edit-session actions (SET_VALUE, COMMIT,
\* SET_FIELD_COMMIT, CLEAR_OVERRIDE, BULK_ADJUST, UNDO, REDO in any order,
\* also with UNDO, REDO or a committed edit arriving while a drag gesture is
\* uncommitted), COMMIT followed by UNDO until undoStack is empty makes
\* current the ServiceBudget the session was opened with.
C28_UndoAllReturnsToStart ==
    session.open => UndoAll(EditCommit(session.edit)).current = OpenedBudget


----------------------------------------------------------------------------
(* C30.  A version number names at most one version of a model.            *)

\* The versions of model k that have number n.
Numbered(k, n) == {j \in DOMAIN models[k].versions : models[k].versions[j].number = n}

\* C30: in every state reached by SAVE_VERSION, DELETE_VERSION,
\* TOGGLE_VERSION_SHARED, RESTORE_VERSION and IMPORT_MODEL_MERGE, no two
\* versions of one model have the same number, so that the actions that name
\* a version by its number act on at most one version.
C30_VersionNumbersUnique ==
    \A k \in DOMAIN models :
        \A n \in VersionNumbers(models[k].versions) : Cardinality(Numbered(k, n)) = 1

\* A version has been saved in a model whose numbers have a gap left by a
\* delete: the new version took the number after the highest.
C30_Witness ==
    /\ last.type = "SAVE_VERSION"
    /\ HasModel(activeModelId)
    /\ Len(ActiveModel.versions) >= 2
    /\ 1 \notin VersionNumbers(ActiveModel.versions)
    /\ ActiveModel.versions[Len(ActiveModel.versions)].number
          = SetMax(VersionNumbers(ActiveModel.versions))

====
